---- MODULE Spec2Model ----
(***************************************************************************)
(* A model of the astrid turn completion engine (src/astrid/main.py),      *)
(* its data of record (src/astrid/conversation.py) and the helpers it      *)
(* calls (src/astrid/utils.py).                                            *)
(*                                                                         *)
(* Two specifications share the engine's actions:                          *)
(*   Spec      complete_turn called directly, once, with arguments drawn   *)
(*             from bounded sets (any input turn, any max_tool_loops);     *)
(*   SpecRepl  run_repl reading inputs and driving complete_turn with the  *)
(*             arguments run_repl passes.                                  *)
(* FairSpec is Spec with every await eventually resuming.  A third,        *)
(*   SpecHistory, builds the history of create_initial_turn: the exchange  *)
(*             summary of a conversation drawn from bounded sets, then the *)
(*             selection under a token budget.                             *)
(*                                                                         *)
(* The engine is a coroutine: one action of the model is the code that     *)
(* runs between two suspension points (await / async for).                 *)
(*                                                                         *)
(* Text is a sequence of atoms: an atom is a whitespace atom (" ", "\n")   *)
(* or a run of non-whitespace characters.  Concatenating two texts is \o.  *)
(***************************************************************************)
EXTENDS Integers, Sequences, FiniteSets, TLC

\* ------------------------------------------------------------------ bounds

\* largest max_tool_loops the direct caller passes
MaxToolLoops == 2

\* largest loop_count of the turn the direct caller passes
MaxLoopCount == 3

\* number of ordinary (non-command) inputs run_repl reads in one behaviour
MaxTurns == 2

\* number of tool invocations that raise in one behaviour
MaxToolFailures == 1

\* largest number of prior turns of the conversation the history is built from
MaxPriorTurns == 3

\* largest number of steps of a turn an exchange is extracted from
MaxSteps == 4

\* largest number of content blocks of a tool result
MaxBlocks == 2

\* largest number of set_status calls the engine makes on one REPLTurnUI
MaxStatusCalls == 4

\* ------------------------------------------------------- program constants

\* complete_turn's default for max_tool_loops, which run_repl relies on
DefaultMaxToolLoops == 4

\* settings.MAX_HISTORY_TOKENS
MAX_HISTORY_TOKENS == 4000

\* ------------------------------------------------------------ Python values

\* Python's None where a text (a sequence of atoms) is expected
NoneText == <<"<None>">>

\* Python's None where a str is expected (a name, a tool_call_id)
NoneStr == "<None>"

IsWhitespace(atom) == atom \in {" ", "\n"}

\* truthiness of an Optional[str]
Truthy(text) == text # NoneText /\ text # <<>>

RECURSIVE Concat(_)
\* "".join(texts)
Concat(texts) ==
  IF texts = <<>> THEN <<>> ELSE Head(texts) \o Concat(Tail(texts))

\* -------------------------------------------------- conversation.py: Message

Message(role, content, tool_calls, tool_call_id, name) ==
  [role |-> role, content |-> content, tool_calls |-> tool_calls,
   tool_call_id |-> tool_call_id, name |-> name]

\* one requested tool call, as the model lists it in an assistant message
ToolCall(id, name, arguments) ==
  [id |-> id, function |-> [name |-> name, arguments |-> arguments]]

\* Step(message=..., usage=...); oid is the identity of the Step object
Step(oid, message, usage) == [oid |-> oid, message |-> message, usage |-> usage]

\* Turn: steps is a reference to the list object held in the heap
Turn(ref, loop_count) == [steps |-> ref, loop_count |-> loop_count]

\* the list a turn's steps attribute refers to
StepsOf(h, turn) == h[turn.steps]

\* Turn._add_step: self.steps.append(Step(message=message, usage=usage))
add_step(h, turn, oid, message, usage) ==
  [h EXCEPT ![turn.steps] = Append(@, Step(oid, message, usage))]

add_system(h, turn, oid, content) ==
  add_step(h, turn, oid, Message("system", content, <<>>, NoneStr, NoneStr), "None")

add_user(h, turn, oid, content) ==
  add_step(h, turn, oid, Message("user", content, <<>>, NoneStr, NoneStr), "None")

add_assistant(h, turn, oid, content) ==
  add_step(h, turn, oid, Message("assistant", content, <<>>, NoneStr, NoneStr), "None")

\* mutant: the tool step is written over the last step of the turn
add_tool_over_last(h, turn, oid, name, content, tool_call_id) ==
  [h EXCEPT ![turn.steps] =
     SubSeq(@, 1, Len(@) - 1)
       \o <<Step(oid, Message("tool", content, <<>>, tool_call_id, name), "None")>>]

add_tool(h, turn, oid, name, content, tool_call_id) ==
  add_step(h, turn, oid, Message("tool", content, <<>>, tool_call_id, name), "None")

\* add_raw: the already-built assistant message is stored as it is
add_raw(h, turn, oid, message, usage) == add_step(h, turn, oid, message, usage)

\* the Step objects of a deep copy: same content, fresh identities
CopySteps(steps, oid) ==
  [i \in 1..Len(steps) |-> [steps[i] EXCEPT !.oid = oid + i - 1]]

\* mutant: model_copy() without deep=True, a new Turn that shares the list
model_copy_shallow(h, turn, oid) ==
  [heap |-> h, turn |-> Turn(turn.steps, turn.loop_count), nextOid |-> oid]

\* initial_turn.model_copy(deep=True): a new Turn, a new list, new Steps
model_copy_deep(h, turn, oid) ==
  [heap |-> Append(h, CopySteps(StepsOf(h, turn), oid)),
   turn |-> Turn(Len(h) + 1, turn.loop_count),
   nextOid |-> oid + Len(StepsOf(h, turn))]

\* ------------------------------------------------ conversation.py: Exchange

\* indices of the steps with the given role
RoleIndices(steps, role) == {i \in 1..Len(steps) : steps[i].message.role = role}

Min(S) == CHOOSE x \in S : \A y \in S : x <= y

Max(S) == CHOOSE x \in S : \A y \in S : x >= y

RECURSIVE ScanExchangeLastUser(_, _, _, _)
\* mutant: user_step is overwritten by every user step
ScanExchangeLastUser(steps, i, user_step, assistant_step) ==
  IF i > Len(steps) THEN [user |-> user_step, assistant |-> assistant_step]
  ELSE IF steps[i].message.role = "user"
    THEN ScanExchangeLastUser(steps, i + 1, i, assistant_step)
  ELSE IF steps[i].message.role = "assistant"
    THEN ScanExchangeLastUser(steps, i + 1, user_step, i)
  ELSE ScanExchangeLastUser(steps, i + 1, user_step, assistant_step)

RECURSIVE ScanExchangeFirstAssistant(_, _, _, _)
\* mutant: assistant_step is kept once it is set
ScanExchangeFirstAssistant(steps, i, user_step, assistant_step) ==
  IF i > Len(steps) THEN [user |-> user_step, assistant |-> assistant_step]
  ELSE IF steps[i].message.role = "user"
    THEN ScanExchangeFirstAssistant(steps, i + 1,
                                    IF user_step = 0 THEN i ELSE user_step,
                                    assistant_step)
  ELSE IF steps[i].message.role = "assistant"
    THEN ScanExchangeFirstAssistant(steps, i + 1, user_step,
                                    IF assistant_step = 0 THEN i ELSE assistant_step)
  ELSE ScanExchangeFirstAssistant(steps, i + 1, user_step, assistant_step)

RECURSIVE ScanExchange(_, _, _, _)
\* the for loop of Turn.get_exchange from step i on; user_step and
\* assistant_step are the indices of the steps held so far, 0 for None
ScanExchange(steps, i, user_step, assistant_step) ==
  IF i > Len(steps) THEN [user |-> user_step, assistant |-> assistant_step]
  ELSE IF steps[i].message.role = "user"
    THEN ScanExchange(steps, i + 1, IF user_step = 0 THEN i ELSE user_step,
                      assistant_step)
  ELSE IF steps[i].message.role = "assistant"
    THEN ScanExchange(steps, i + 1, user_step, i)
  ELSE ScanExchange(steps, i + 1, user_step, assistant_step)

\* Turn.get_exchange: (user_step, assistant_step) when both were found, or None
get_exchange(steps) ==
  LET found == ScanExchange(steps, 1, 0, 0)
  IN IF found.user # 0 /\ found.assistant # 0
       THEN [none |-> FALSE, user |-> steps[found.user],
             assistant |-> steps[found.assistant]]
       ELSE [none |-> TRUE]

\* Conversation.get_exchange_summary: one {"user", "assistant"} entry per turn,
\* both "" for a turn that has no exchange
get_exchange_summary(h, turns) ==
  [i \in 1..Len(turns) |->
     LET ex == get_exchange(StepsOf(h, turns[i]))
     IN IF ex.none
          THEN [user |-> <<>>, assistant |-> <<>>]
          ELSE [user |-> ex.user.message.content,
                assistant |-> ex.assistant.message.content]]

\* Conversation.reset: self.turns = []
reset(turns) == <<>>

\* Conversation.add_turn: self.turns.append(turn)
add_turn(turns, turn) == Append(turns, turn)

\* ------------------------------------------------- main.py: history selector

RECURSIVE WordCount(_, _)
\* len(text.split()): the maximal runs of non-whitespace atoms; inWord says the
\* atom before the head was not whitespace
WordCount(text, inWord) ==
  IF text = <<>> THEN 0
  ELSE IF IsWhitespace(Head(text)) THEN WordCount(Tail(text), FALSE)
  ELSE (IF inWord THEN 0 ELSE 1) + WordCount(Tail(text), TRUE)

\* estimate_tokens: int(len(text.split()) * 1.3); None has no split()
estimate_tokens(text) == (13 * WordCount(text, FALSE)) \div 10

RECURSIVE SelectFromAppendFirst(_, _, _, _)
\* mutant: the exchange is appended before the budget is tested
SelectFromAppendFirst(exchanges, i, total, max_tokens) ==
  IF i = 0 THEN [raised |-> FALSE, selected |-> <<>>]
  ELSE LET pc_ == exchanges[i]
       IN IF pc_.user = NoneText \/ pc_.assistant = NoneText
            THEN [raised |-> TRUE, selected |-> <<>>]
            ELSE LET pair_tokens == estimate_tokens(pc_.user)
                                    + estimate_tokens(pc_.assistant)
                 IN IF total + pair_tokens > max_tokens
                      THEN [raised |-> FALSE, selected |-> <<pc_>>]
                      ELSE LET rest == SelectFromAppendFirst(exchanges, i - 1,
                                         total + pair_tokens, max_tokens)
                           IN [raised |-> rest.raised,
                               selected |-> Append(rest.selected, pc_)]

RECURSIVE SelectFromSkipping(_, _, _, _)
\* mutant: an exchange that would overflow is skipped (continue, not break)
SelectFromSkipping(exchanges, i, total, max_tokens) ==
  IF i = 0 THEN [raised |-> FALSE, selected |-> <<>>]
  ELSE LET pc_ == exchanges[i]
       IN IF pc_.user = NoneText \/ pc_.assistant = NoneText
            THEN [raised |-> TRUE, selected |-> <<>>]
            ELSE LET pair_tokens == estimate_tokens(pc_.user)
                                    + estimate_tokens(pc_.assistant)
                 IN IF total + pair_tokens > max_tokens
                      THEN SelectFromSkipping(exchanges, i - 1, total, max_tokens)
                      ELSE LET rest == SelectFromSkipping(exchanges, i - 1,
                                         total + pair_tokens, max_tokens)
                           IN [raised |-> rest.raised,
                               selected |-> Append(rest.selected, pc_)]

RECURSIVE SelectFromStrict(_, _, _, _)
\* mutant: the budget tested with >= instead of >
SelectFromStrict(exchanges, i, total, max_tokens) ==
  IF i = 0 THEN [raised |-> FALSE, selected |-> <<>>]
  ELSE LET pc_ == exchanges[i]
       IN IF pc_.user = NoneText \/ pc_.assistant = NoneText
            THEN [raised |-> TRUE, selected |-> <<>>]
            ELSE LET pair_tokens == estimate_tokens(pc_.user)
                                    + estimate_tokens(pc_.assistant)
                 IN IF total + pair_tokens >= max_tokens
                      THEN [raised |-> FALSE, selected |-> <<>>]
                      ELSE LET rest == SelectFromStrict(exchanges, i - 1,
                                         total + pair_tokens, max_tokens)
                           IN [raised |-> rest.raised,
                               selected |-> Append(rest.selected, pc_)]

RECURSIVE SelectFrom(_, _, _, _)
\* the loop of select_history_by_token_budget at index i (newest first), with
\* `total` accumulated: the selection oldest to newest, or the AttributeError
\* that estimate_tokens raises on a None text
SelectFrom(exchanges, i, total, max_tokens) ==
  IF i = 0 THEN [raised |-> FALSE, selected |-> <<>>]
  ELSE LET pc_ == exchanges[i]
       IN IF pc_.user = NoneText \/ pc_.assistant = NoneText
            THEN [raised |-> TRUE, selected |-> <<>>]
            ELSE LET pair_tokens == estimate_tokens(pc_.user)
                                    + estimate_tokens(pc_.assistant)
                 IN IF total + pair_tokens > max_tokens
                      THEN [raised |-> FALSE, selected |-> <<>>]
                      ELSE LET rest == SelectFrom(exchanges, i - 1,
                                                  total + pair_tokens, max_tokens)
                           IN [raised |-> rest.raised,
                               selected |-> Append(rest.selected, pc_)]

select_history_by_token_budget(summary_exchanges, max_tokens) ==
  SelectFrom(summary_exchanges, Len(summary_exchanges), 0, max_tokens)

\* f"User: {pc['user']}\nAssistant: {pc['assistant']}"
RenderExchange(pc_) ==
  <<"User:", " ">> \o pc_.user \o <<"\n", "Assistant:", " ">> \o pc_.assistant

RECURSIVE JoinBlank(_)
\* "\n\n".join(texts)
JoinBlank(texts) ==
  IF texts = <<>> THEN <<>>
  ELSE IF Len(texts) = 1 THEN Head(texts)
  ELSE Head(texts) \o <<"\n", "\n">> \o JoinBlank(Tail(texts))

\* the summary text create_initial_turn renders from the selected exchanges
HistorySummary(selected) ==
  <<"RECENT", " ", "CONVERSATION", " ", "HISTORY", "\n", "\n">>
    \o JoinBlank([i \in 1..Len(selected) |-> RenderExchange(selected[i])])

\* config.get("system_prompt", settings.DEFAULT_SYSTEM_PROMPT)
SystemPrompt == <<"You", " ", "are", " ", "Astrid">>

\* mutant: the history summary added after the user input
create_initial_turn_summary_last(h, oid, user_input, turns) ==
  LET sel == select_history_by_token_budget(get_exchange_summary(h, turns),
                                            MAX_HISTORY_TOKENS)
      turn == Turn(Len(h) + 1, 0)
      h0 == Append(h, <<>>)
      h1 == add_system(h0, turn, oid, SystemPrompt)
      h2 == add_user(h1, turn, oid + 1, user_input)
      h3 == add_assistant(h2, turn, oid + 2, HistorySummary(sel.selected))
  IN IF sel.raised
       THEN [raised |-> TRUE, heap |-> h, turn |-> turn, nextOid |-> oid]
       ELSE [raised |-> FALSE, heap |-> h3, turn |-> turn, nextOid |-> oid + 3]

\* create_initial_turn: a new Turn holding system prompt, history summary and
\* the user input; raised when the history selector raises
create_initial_turn(h, oid, user_input, turns) ==
  LET sel == select_history_by_token_budget(get_exchange_summary(h, turns),
                                            MAX_HISTORY_TOKENS)
      turn == Turn(Len(h) + 1, 0)
      h0 == Append(h, <<>>)
      h1 == add_system(h0, turn, oid, SystemPrompt)
      h2 == add_assistant(h1, turn, oid + 1, HistorySummary(sel.selected))
      h3 == add_user(h2, turn, oid + 2, user_input)
  IN IF sel.raised
       THEN [raised |-> TRUE, heap |-> h, turn |-> turn, nextOid |-> oid]
       ELSE [raised |-> FALSE, heap |-> h3, turn |-> turn, nextOid |-> oid + 3]

\* ------------------------------------------------------------------ utils.py

\* the argument payloads the model's tool calls carry
ValidObjectPayload == "{\"q\": 1}"

MalformedPayload == "{bad"

EmptyPayload == ""

\* valid JSON that is no object
ArrayPayload == "[1, 2]"

NullPayload == "null"

\* json.loads on the payloads modelled: the parsed value (a dict with its keys,
\* a list, None), or a decode error
json_loads(s) ==
  IF s = ValidObjectPayload
    THEN [raised |-> FALSE, value |-> [kind |-> "dict", keys |-> {"q"}]]
  ELSE IF s = ArrayPayload
    THEN [raised |-> FALSE, value |-> [kind |-> "list", keys |-> {}]]
  ELSE IF s = NullPayload
    THEN [raised |-> FALSE, value |-> [kind |-> "NoneType", keys |-> {}]]
  ELSE [raised |-> TRUE, value |-> [kind |-> "dict", keys |-> {}]]

\* mutant: json.loads(s) if s else {}, the decode error not turned into {}
safe_json_loads_unguarded(s) ==
  IF s = "" THEN [kind |-> "dict", keys |-> {}]
  ELSE IF json_loads(s).raised THEN [kind |-> "JSONDecodeError", keys |-> {}]
  ELSE json_loads(s).value

\* safe_json_loads: json.loads(s) if s else {}; {} on any exception
safe_json_loads(s) ==
  IF s = "" THEN [kind |-> "dict", keys |-> {}]
  ELSE IF json_loads(s).raised THEN [kind |-> "dict", keys |-> {}]
  ELSE json_loads(s).value

\* json.dumps of a str value
json_dumps(v) == IF v = NoneStr THEN <<"null">> ELSE <<"\"", v, "\"">>

\* mutant: a block with the empty text is kept
BlockTextsKeepingEmpty(content) ==
  SelectSeq(content, LAMBDA block : block # NoneText)

\* the texts appended in the loop over the blocks: getattr(block, "text", None)
\* of every block for which it is truthy, in order
BlockTexts(content) ==
  SelectSeq(content, LAMBDA block : block # <<>> /\ block # NoneText)

RECURSIVE JoinLines(_)
\* "\n".join(texts)
JoinLines(texts) ==
  IF texts = <<>> THEN <<>>
  ELSE IF Len(texts) = 1 THEN Head(texts)
  ELSE Head(texts) \o <<"\n">> \o JoinLines(Tail(texts))

\* str(e) of the RuntimeError run_tool raises from a ToolError
ToolErrorMessage(name, msg) ==
  <<"MCP", " ", "tool", " ", "'", name, "'", " ", "failed:", " ">> \o msg

\* result.content or []
ContentOrEmpty(outcome) == IF outcome.no_content THEN <<>> ELSE outcome.content

\* json.dumps({"structured_content": ..., "is_error": ...}, default=str)
MetadataText(outcome) ==
  <<"{", "\"structured_content\":", " ">>
    \o json_dumps(outcome.structured_content)
    \o <<",", " ", "\"is_error\":", " ", outcome.is_error, "}">>

\* mutant: the text blocks are looked at before the data
run_tool_text_first(name, outcome) ==
  IF outcome.kind = "ToolError"
    THEN [raised |-> TRUE, class |-> "RuntimeError",
          text |-> ToolErrorMessage(name, outcome.msg)]
  ELSE IF outcome.kind = "Exception"
    THEN [raised |-> TRUE, class |-> "Exception", text |-> outcome.msg]
  ELSE IF BlockTexts(ContentOrEmpty(outcome)) # <<>>
    THEN [raised |-> FALSE, class |-> "str",
          text |-> JoinLines(BlockTexts(ContentOrEmpty(outcome)))]
  ELSE IF outcome.data # NoneStr
    THEN [raised |-> FALSE, class |-> "str", text |-> json_dumps(outcome.data)]
  ELSE [raised |-> FALSE, class |-> "str", text |-> MetadataText(outcome)]

\* run_tool on what client.call_tool did: its text, or the exception it lets out
run_tool(name, outcome) ==
  IF outcome.kind = "ToolError"
    THEN [raised |-> TRUE, class |-> "RuntimeError",
          text |-> ToolErrorMessage(name, outcome.msg)]
  ELSE IF outcome.kind = "Exception"
    THEN [raised |-> TRUE, class |-> "Exception", text |-> outcome.msg]
  ELSE IF outcome.data # NoneStr
    THEN [raised |-> FALSE, class |-> "str", text |-> json_dumps(outcome.data)]
  ELSE IF BlockTexts(ContentOrEmpty(outcome)) # <<>>
    THEN [raised |-> FALSE, class |-> "str",
          text |-> JoinLines(BlockTexts(ContentOrEmpty(outcome)))]
  ELSE [raised |-> FALSE, class |-> "str", text |-> MetadataText(outcome)]

\* ------------------------------------------------------- main.py: the engine

\* stream_chunk_builder(chunks): the content fragments concatenated in arrival
\* order (None when no chunk carried content), the tool calls in arrival order
stream_chunk_builder(chunks) ==
  LET contents == [i \in 1..Len(chunks) |->
                     IF Truthy(chunks[i].content) THEN chunks[i].content ELSE <<>>]
      calls == [i \in 1..Len(chunks) |-> chunks[i].tool_calls]
  IN Message("assistant",
             IF \E i \in 1..Len(chunks) : Truthy(chunks[i].content)
               THEN Concat(contents) ELSE NoneText,
             Concat(calls), NoneStr, NoneStr)

\* the text recorded for a tool call that raised
ToolErrorText(name, e, arg_str) ==
  <<"TOOL_ERROR:", " ", "Tool", " ", "'", name, "'", " ", "failed.", "\n",
    "Error:", " ">> \o e
    \o <<"\n", "Original", " ", "arguments:", " ", arg_str, "\n",
         "Traceback:", "\n", "<traceback>">>

\* mutant: the tool results are left out of the message list
MessagesOfWithoutToolResults(steps) ==
  LET kept == SelectSeq(steps, LAMBDA s : s.message.role # "tool")
  IN [i \in 1..Len(kept) |-> kept[i].message]

\* [step.message for step in new_turn.steps]
MessagesOf(steps) == [i \in 1..Len(steps) |-> steps[i].message]

\* the request complete_turn hands to acompletion
BuildRequest(steps, catalog) ==
  [messages |-> MessagesOf(steps), tools |-> catalog,
   tool_choice |-> IF catalog # <<>> THEN "auto" ELSE NoneStr, stream |-> TRUE]

\* mutant: the tool check looks at the tool calls only, not at the client
NoToolsToRunIgnoringClient(has_client, assistant_msg) ==
  assistant_msg.tool_calls = <<>>

\* "No tool calls -> we are done": client is None or not has_tool_calls
NoToolsToRun(has_client, assistant_msg) ==
  ~has_client \/ assistant_msg.tool_calls = <<>>

\* mutant: the bound tested with > instead of >=
LoopBoundOffByOne(turn, max) == turn.loop_count > max

\* mutant: the loop bound is never tested
LoopBoundNeverReached(turn, max) == FALSE

\* "Looped too many times -> we are done"
LoopBoundReached(turn, max) == turn.loop_count >= max

\* mutant: the tool calls visited newest first
DispatchReversed(tool_calls) ==
  [i \in 1..Len(tool_calls) |-> tool_calls[Len(tool_calls) + 1 - i]]

\* the order in which the for loop visits assistant_msg's tool calls
DispatchOrder(tool_calls) == tool_calls

\* ui.set_status("Generating response...")
GeneratingStatus == <<"Generating response...">>

\* ui.set_status(f"Running '{name}' with {arg_str[:100]}..."); every payload
\* modelled is shorter than 100 characters
RunningStatus(tc) == <<"Running", tc.function.name, tc.function.arguments>>

\* ui.hide_status()
HiddenStatus == <<>>

\* what run_tool is awaited with for a tool call
Invocation(tc) ==
  [name |-> tc.function.name, args |-> safe_json_loads(tc.function.arguments)]

NoInvocation == [name |-> NoneStr, args |-> [kind |-> "dict", keys |-> {}]]

NoCall == ToolCall(NoneStr, NoneStr, "")

NoTurn == Turn(0, 0)

\* ------------------------------------------------------------- environment

CallBoom == ToolCall("call_1", "boom", MalformedPayload)

CallEcho == ToolCall("call_2", "echo", ValidObjectPayload)

CallEmpty == ToolCall("call_3", "echo", EmptyPayload)

Chunk(content, tool_calls) == [content |-> content, tool_calls |-> tool_calls]

\* a final answer streamed in two fragments
StreamText == <<Chunk(<<"Hel">>, <<>>), Chunk(<<"lo">>, <<>>)>>

\* one tool call and no text
StreamOneCall == <<Chunk(NoneText, <<CallBoom>>)>>

\* some text, then two tool calls
StreamTwoCalls == <<Chunk(<<"wait">>, <<>>), Chunk(NoneText, <<CallBoom, CallEcho>>)>>

\* one tool call whose argument payload is the empty string
StreamEmptyArgs == <<Chunk(NoneText, <<CallEmpty>>)>>

\* what client.call_tool can do
OutcomeData ==
  [kind |-> "result", data |-> "sunny", content |-> <<>>, no_content |-> FALSE,
   structured_content |-> NoneStr, is_error |-> "false", msg |-> <<>>]

OutcomeToolError ==
  [kind |-> "ToolError", data |-> NoneStr, content |-> <<>>, no_content |-> FALSE,
   structured_content |-> NoneStr, is_error |-> "true", msg |-> <<"exploded">>]

OutcomeException ==
  [kind |-> "Exception", data |-> NoneStr, content |-> <<>>, no_content |-> FALSE,
   structured_content |-> NoneStr, is_error |-> "true", msg |-> <<"timed", " ", "out">>]

\* REPLTurnUI.__init__: no spinner task, no stop event, nothing rendered;
\* toolbar is the text last handed to set_status_callback
NoReplUi ==
  [spinner_task |-> NoneStr, stop_event |-> NoneStr, spinner_label |-> <<>>,
   last_render_len |-> 0, toolbar |-> <<>>]

\* client.call_tool was not called
NoOutcome ==
  [kind |-> "none", data |-> NoneStr, content |-> <<>>, no_content |-> FALSE,
   structured_content |-> NoneStr, is_error |-> "false", msg |-> <<>>]

\* the external operations in flight: complete_turn invocations, awaited model
\* requests, open model streams, awaited tool invocations
NothingInFlight == [turns |-> 0, requests |-> 0, streams |-> 0, tools |-> 0]

\* the operation complete_turn is suspended in ends
EndedAt(f, at) ==
  [f EXCEPT !.requests = IF at = "requesting" THEN @ - 1 ELSE @,
            !.streams = IF at = "streaming" THEN @ - 1 ELSE @,
            !.tools = IF at = "invoking" THEN @ - 1 ELSE @]

\* mutant: the tool calls of a round are awaited together
DispatchGathered(tool_calls) == Len(tool_calls)

\* the run_tool calls begun at once: the for loop awaits one call at a time
DispatchWidth(tool_calls) == 1

\* the calls of the UI sink
SetStatus(text) == [method |-> "set_status", text |-> text]

HideStatus == [method |-> "hide_status", text |-> <<>>]

PrintToken(text) == [method |-> "print_streaming_token", text |-> text]

\* mutant: the sink is handed the fragment ahead of what it already has
ForwardTokenAhead(shown, content) == <<content>> \o shown

\* ui.print_streaming_token(delta.content): the sink has one more fragment
ForwardToken(shown, content) == Append(shown, content)

\* mutant: loop_count counts the tool calls
BeginRoundCountingCalls(turn, tool_calls) ==
  [turn EXCEPT !.loop_count = @ + Len(tool_calls)]

\* new_turn.loop_count += 1, whatever the number of calls of the round
BeginRound(turn, tool_calls) == [turn EXCEPT !.loop_count = @ + 1]

\* mutant: a call that raised ends the round
RemainingCallsUntilFailure(calls, kind) ==
  IF kind = "tool_raised" THEN <<>> ELSE Tail(calls)

\* the calls the for loop still has to make after the first of `calls` ended in
\* the way `kind`: the loop goes on whatever the way
RemainingCalls(calls, kind) == Tail(calls)

\* mutant: no ui.hide_status() after a tool call
StatusAfterToolKept(raised) == <<>>

\* the ui.hide_status() calls after run_tool ended: line 224 in the handler
\* when it raised, then line 236
StatusAfterTool(raised) ==
  IF raised THEN <<HideStatus, HideStatus>> ELSE <<HideStatus>>

\* no call of run_tool made yet
NoToolResult == [raised |-> FALSE, class |-> "none", text |-> <<>>]

\* ---------------------------------------------------------------- the state

VARIABLES
  caller,          \* "direct": complete_turn called by a test; "repl": by run_repl
  heap,            \* the list objects: heap[ref] is the list of Steps at ref
  nextOid,         \* the next fresh Step identity
  initial_turn,    \* complete_turn's argument (the caller's Turn)
  max_tool_loops,  \* complete_turn's argument
  client,          \* TRUE when a tool executor is configured (client is not None)
  tools,           \* the tool catalog
  ui,              \* TRUE when a UI sink is passed
  new_turn,        \* complete_turn's working copy
  pc,              \* where complete_turn is suspended, or how it ended
  request,         \* the arguments of the last acompletion call
  stream,          \* the chunks the open stream has yet to deliver
  chunks,          \* the chunks consumed from the open stream
  pending,         \* the tool calls the for loop has yet to finish, head in flight
  invoked,         \* the name and arguments run_tool is awaited with
  status,          \* what the UI sink shows
  printed,         \* the tokens forwarded to the UI sink for the open stream
  failure,         \* the exception that left complete_turn
  conversation,    \* run_repl's Conversation.turns
  replPc,          \* where run_repl is
  turnsLeft,       \* ordinary inputs run_repl may still read
  entry,           \* the caller's turn as it was when complete_turn was called
  nRequests,       \* model requests made by this invocation
  nRounds,         \* tool-dispatch rounds begun by this invocation
  nInvoked,        \* tool invocations begun by this invocation
  allToolResp,     \* every response of this invocation requested a tool call
  toolFailures,    \* tool invocations that raised so far
  lastEvent,       \* what the environment did in the last step
  inFlight,        \* how many external operations of each kind are in flight
  uiCalls,         \* the UI sink calls this invocation made, in order
  budget,          \* the max_tokens the history selector is called with
  full_exchange_history,  \* what get_exchange_summary returned
  exchange_summary,       \* what select_history_by_token_budget returned
  histPc,          \* where the building of the history is
  exchange,        \* what Turn.get_exchange returned
  tool_result,     \* what run_tool returned or raised
  callOutcome,     \* what client.call_tool did when run_tool was called alone
  repl_ui,         \* the attributes of the REPLTurnUI object and the state of its spinner task
  stderr_line      \* what the spinner line of stderr shows

\* the variables of the history selection and of the functions called alone
histVars == <<budget, full_exchange_history, exchange_summary, histPc, exchange,
              tool_result, callOutcome, repl_ui, stderr_line>>

\* the variables no step of complete_turn or run_repl changes: the arguments
\* of the call, and the variables of the history selection
argVars == <<caller, max_tool_loops, client, tools, ui, histVars>>

replVars == <<conversation, replPc, turnsLeft>>

vars == <<caller, heap, nextOid, initial_turn, max_tool_loops, client, tools, ui,
          new_turn, pc, request, stream, chunks, pending, invoked, status,
          printed, failure, conversation, replPc, turnsLeft, entry, nRequests,
          nRounds, nInvoked, allToolResp, toolFailures, lastEvent, budget,
          full_exchange_history, exchange_summary, histPc, exchange,
          tool_result, callOutcome, repl_ui, stderr_line, inFlight, uiCalls>>

\* what the environment did: the kind of event, the tool call it concerns and,
\* for a tool that raised, str(e)
Event(kind, tc, text) == [kind |-> kind, call |-> tc, text |-> text]

\* the log of UI sink calls after `calls`, which are made only with a sink
UiLog(calls) == IF ui THEN uiCalls \o calls ELSE uiCalls

\* the streams the model collaborator can open
ModelStreams ==
  IF caller = "repl" THEN {StreamText, StreamOneCall}
  ELSE {StreamText, StreamOneCall, StreamTwoCalls, StreamEmptyArgs}

\* the outcomes of one client.call_tool of the tool `name`: any tool can return
\* or raise a ToolError; "boom" can also raise another exception
ToolOutcomes(name) ==
  IF caller = "direct" /\ name = "boom"
    THEN {OutcomeData, OutcomeToolError, OutcomeException}
    ELSE {OutcomeData, OutcomeToolError}

\* the input turns of the direct caller: a turn as create_initial_turn builds
\* it, and a turn re-entered after a tool result
InputSteps ==
  { <<Step(1, Message("system", SystemPrompt, <<>>, NoneStr, NoneStr), "None"),
      Step(2, Message("assistant", HistorySummary(<<>>), <<>>, NoneStr, NoneStr), "None"),
      Step(3, Message("user", <<"hi">>, <<>>, NoneStr, NoneStr), "None")>>,
    <<Step(1, Message("system", SystemPrompt, <<>>, NoneStr, NoneStr), "None"),
      Step(2, Message("user", <<"hi">>, <<>>, NoneStr, NoneStr), "None"),
      Step(3, Message("assistant", NoneText, <<CallEcho>>, NoneStr, NoneStr), "usage"),
      Step(4, Message("tool", <<"\"", "sunny", "\"">>, <<>>, "call_2", "echo"), "None")>> }

\* the tool catalogs: empty, or one tool
Catalogs == {<<>>, <<"echo">>}

\* ------------------------------------------------------ complete_turn: pieces

\* complete_turn returns `turn`: run_repl appends it and goes back to the prompt
ReturnToCaller(turn) ==
  IF caller = "repl"
    THEN /\ conversation' = add_turn(conversation, turn)
         /\ replPc' = "prompt"
         /\ UNCHANGED turnsLeft
    ELSE UNCHANGED replVars

\* mutant: run_repl records the turn in progress, when there is one, before
\* the exception leaves
RaiseToCallerAppending ==
  IF caller = "repl"
    THEN /\ conversation' = IF new_turn = NoTurn THEN conversation
                            ELSE add_turn(conversation, new_turn)
         /\ replPc' = "crashed"
         /\ UNCHANGED turnsLeft
    ELSE UNCHANGED replVars

\* an exception leaves complete_turn: run_repl has no handler around the call,
\* so it leaves run_repl too
RaiseToCaller ==
  IF caller = "repl"
    THEN replPc' = "crashed" /\ UNCHANGED <<conversation, turnsLeft>>
    ELSE UNCHANGED replVars

\* lines 147-165 of main.py: copy the turn, then the first pass of the loop up
\* to the await of acompletion
EnterTurn(h, it, oid) ==
  LET cp == model_copy_deep(h, it, oid)
  IN /\ heap' = cp.heap
     /\ nextOid' = cp.nextOid
     /\ initial_turn' = it
     /\ new_turn' = cp.turn
     /\ request' = BuildRequest(StepsOf(cp.heap, cp.turn), tools)
     /\ status' = IF ui THEN GeneratingStatus ELSE status
     /\ pc' = "requesting"
     /\ stream' = <<>>
     /\ chunks' = <<>>
     /\ pending' = <<>>
     /\ invoked' = NoInvocation
     /\ printed' = <<>>
     /\ failure' = "none"
     /\ entry' = [steps |-> StepsOf(h, it), loop_count |-> it.loop_count]
     /\ nRequests' = 1
     /\ nRounds' = 0
     /\ nInvoked' = 0
     /\ allToolResp' = TRUE
     /\ lastEvent' = Event("called", NoCall, <<>>)
     /\ inFlight' = [inFlight EXCEPT !.turns = @ + 1, !.requests = @ + 1]
     /\ uiCalls' = IF ui THEN <<HideStatus, SetStatus(GeneratingStatus)>> ELSE <<>>
     /\ UNCHANGED toolFailures

\* an exception propagates out of complete_turn
Raise(kind) ==
  /\ pc' = "raised"
  /\ failure' = kind
  /\ lastEvent' = Event(kind, IF pending # <<>> THEN Head(pending) ELSE NoCall, <<>>)
  /\ RaiseToCaller
  /\ UNCHANGED <<uiCalls, argVars, heap, nextOid, initial_turn, new_turn, request, stream,
                 chunks, pending, invoked, status, printed, entry, nRequests,
                 nRounds, nInvoked, allToolResp, toolFailures>>
  /\ inFlight' = [EndedAt(inFlight, pc) EXCEPT !.turns = @ - 1]

\* ----------------------------------------------------- complete_turn: actions

\* a test calls complete_turn with the arguments Init drew
Call ==
  /\ caller = "direct"
  /\ pc = "idle"
  /\ EnterTurn(heap, initial_turn, nextOid)
  /\ UNCHANGED <<argVars, replVars>>

\* acompletion returns the stream s (lines 159-171)
AcompletionReturns(s) ==
  /\ pc = "requesting"
  /\ pc' = "streaming"
  /\ stream' = s
  /\ chunks' = <<>>
  /\ printed' = <<>>
  /\ status' = IF ui THEN HiddenStatus ELSE status
  /\ lastEvent' = Event("stream_opened", NoCall, <<>>)
  /\ UNCHANGED <<argVars, replVars, heap, nextOid, initial_turn, new_turn, request,
                 pending, invoked, failure, entry, nRequests, nRounds, nInvoked,
                 allToolResp, toolFailures>>
  /\ inFlight' = [inFlight EXCEPT !.requests = @ - 1, !.streams = @ + 1]
  /\ uiCalls' = UiLog(<<HideStatus>>)

\* mutant: a failed request is made again
AcompletionFailsRetried ==
  /\ pc = "requesting"
  /\ nRequests' = nRequests + 1
  /\ lastEvent' = Event("model_failed", NoCall, <<>>)
  /\ UNCHANGED <<inFlight, uiCalls, argVars, replVars, heap, nextOid, initial_turn, new_turn, pc,
                 request, stream, chunks, pending, invoked, status, printed, failure,
                 entry, nRounds, nInvoked, allToolResp, toolFailures>>

\* acompletion raises: nothing catches it
AcompletionFails ==
  /\ pc = "requesting"
  /\ Raise("model_failed")

\* the stream delivers its next chunk (lines 171-176)
StreamChunk ==
  /\ pc = "streaming"
  /\ stream # <<>>
  /\ chunks' = Append(chunks, Head(stream))
  /\ stream' = Tail(stream)
  /\ printed' = IF ui /\ Truthy(Head(stream).content)
                  THEN ForwardToken(printed, Head(stream).content) ELSE printed
  /\ lastEvent' = Event("chunk", NoCall, <<>>)
  /\ UNCHANGED <<inFlight, argVars, replVars, heap, nextOid, initial_turn, new_turn, request,
                 pending, invoked, status, failure, pc, entry, nRequests, nRounds,
                 nInvoked, allToolResp, toolFailures>>
  /\ uiCalls' = IF Truthy(Head(stream).content)
                  THEN UiLog(<<PrintToken(Head(stream).content)>>) ELSE uiCalls

\* the stream raises while being iterated: nothing catches it
StreamFails ==
  /\ pc = "streaming"
  /\ Raise("model_failed")

\* the stream is exhausted (lines 179-220): build and record the assistant
\* message, then return, or begin a tool round up to the await of run_tool
StreamEnd ==
  /\ pc = "streaming"
  /\ stream = <<>>
  /\ chunks # <<>>
  /\ LET assistant_msg == stream_chunk_builder(chunks)
         h1 == add_raw(heap, new_turn, nextOid, assistant_msg, "usage")
         calls == DispatchOrder(assistant_msg.tool_calls)
     IN /\ heap' = h1
        /\ nextOid' = nextOid + 1
        /\ allToolResp' = (allToolResp /\ assistant_msg.tool_calls # <<>>)
        /\ lastEvent' = Event("stream_ended", NoCall, <<>>)
        /\ IF NoToolsToRun(client, assistant_msg)
              \/ LoopBoundReached(new_turn, max_tool_loops)
             THEN /\ pc' = "done"
                  /\ ReturnToCaller(new_turn)
                  /\ inFlight' = [EndedAt(inFlight, "streaming") EXCEPT !.turns = @ - 1]
                  /\ UNCHANGED uiCalls
                  /\ UNCHANGED <<new_turn, pending, invoked, status, nRounds,
                                 nInvoked>>
             ELSE /\ new_turn' = BeginRound(new_turn, calls)
                  /\ pending' = calls
                  /\ invoked' = Invocation(Head(calls))
                  /\ status' = IF ui THEN RunningStatus(Head(calls)) ELSE status
                  /\ pc' = "invoking"
                  /\ inFlight' = [EndedAt(inFlight, "streaming")
                                    EXCEPT !.tools = @ + DispatchWidth(calls)]
                  /\ uiCalls' = UiLog(<<SetStatus(RunningStatus(Head(calls)))>>)
                  /\ nRounds' = nRounds + 1
                  /\ nInvoked' = nInvoked + 1
                  /\ UNCHANGED replVars
  /\ UNCHANGED <<argVars, initial_turn, request, stream, chunks, printed, failure,
                 entry, nRequests, toolFailures>>

\* lines 235-242 and what follows them: record the tool step of the call in
\* flight, then await the next call of the round, or make the next request
RecordToolStep(result, kind, err) ==
  LET tc == Head(pending)
      h1 == add_tool(heap, new_turn, nextOid, tc.function.name, result, tc.id)
      rest == RemainingCalls(pending, kind)
  IN /\ heap' = h1
     /\ nextOid' = nextOid + 1
     /\ pending' = rest
     /\ lastEvent' = Event(kind, tc, err)
     /\ IF rest # <<>>
          THEN /\ invoked' = Invocation(Head(rest))
               /\ status' = IF ui THEN RunningStatus(Head(rest)) ELSE status
               /\ pc' = "invoking"
               /\ inFlight' = [EndedAt(inFlight, "invoking") EXCEPT !.tools = @ + 1]
               /\ uiCalls' = UiLog(StatusAfterTool(kind # "tool_returned")
                                     \o <<SetStatus(RunningStatus(Head(rest)))>>)
               /\ nInvoked' = nInvoked + 1
               /\ UNCHANGED <<request, nRequests>>
          ELSE /\ invoked' = NoInvocation
               /\ request' = BuildRequest(StepsOf(h1, new_turn), tools)
               /\ status' = IF ui THEN GeneratingStatus ELSE status
               /\ pc' = "requesting"
               /\ inFlight' = [EndedAt(inFlight, "invoking") EXCEPT !.requests = @ + 1]
               /\ uiCalls' = UiLog(StatusAfterTool(kind # "tool_returned")
                                     \o <<SetStatus(GeneratingStatus)>>)
               /\ nRequests' = nRequests + 1
               /\ UNCHANGED nInvoked
     /\ toolFailures' = IF kind = "tool_raised" THEN toolFailures + 1 ELSE toolFailures
     /\ UNCHANGED <<argVars, replVars, initial_turn, new_turn, stream, chunks,
                    printed, failure, entry, nRounds, allToolResp>>

\* run_tool returns its text (line 220)
ToolReturns(outcome) ==
  /\ pc = "invoking"
  /\ ~run_tool(invoked.name, outcome).raised
  /\ RecordToolStep(run_tool(invoked.name, outcome).text, "tool_returned", <<>>)

\* mutant: no try/except around run_tool, the exception leaves complete_turn
ToolRaisesPropagates(outcome) ==
  /\ pc = "invoking"
  /\ toolFailures < MaxToolFailures
  /\ run_tool(invoked.name, outcome).raised
  /\ pc' = "raised"
  /\ failure' = "tool_raised"
  /\ lastEvent' = Event("tool_raised", Head(pending),
                        run_tool(invoked.name, outcome).text)
  /\ toolFailures' = toolFailures + 1
  /\ RaiseToCaller
  /\ UNCHANGED <<uiCalls, argVars, heap, nextOid, initial_turn, new_turn, request, stream,
                 chunks, pending, invoked, status, printed, entry, nRequests,
                 nRounds, nInvoked, allToolResp>>
  /\ inFlight' = [EndedAt(inFlight, pc) EXCEPT !.turns = @ - 1]

\* run_tool raises an Exception (lines 221-233): it becomes the tool's result
ToolRaises(outcome) ==
  /\ pc = "invoking"
  /\ toolFailures < MaxToolFailures
  /\ run_tool(invoked.name, outcome).raised
  /\ RecordToolStep(ToolErrorText(invoked.name,
                                  run_tool(invoked.name, outcome).text,
                                  Head(pending).function.arguments),
                    "tool_raised", run_tool(invoked.name, outcome).text)

\* mutant: `except BaseException`, a cancelled tool call becomes a tool result
CancelAbsorbed ==
  /\ pc \in {"requesting", "streaming", "invoking"}
  /\ IF pc = "invoking"
       THEN RecordToolStep(ToolErrorText(invoked.name, <<"cancelled">>,
                                         Head(pending).function.arguments),
                           "cancelled", <<>>)
       ELSE Raise("cancelled")

\* a cancellation (asyncio.CancelledError, a BaseException) is delivered at the
\* suspension point complete_turn is at; `except Exception` does not catch it
Cancel ==
  /\ pc \in {"requesting", "streaming", "invoking"}
  /\ Raise("cancelled")

\* the UI sink calls of complete_turn are not guarded: an exception raised by
\* ui.<method> leaves complete_turn, the working copy being (h, turn) and the
\* sink showing st at that point
UiRaise(method, h, turn, oid, st) ==
  /\ pc' = "raised"
  /\ failure' = "ui_failed"
  /\ heap' = h
  /\ new_turn' = turn
  /\ nextOid' = oid
  /\ status' = st
  /\ lastEvent' = Event("ui_failed", IF pending # <<>> THEN Head(pending) ELSE NoCall,
                        <<method>>)
  /\ RaiseToCaller
  /\ UNCHANGED <<argVars, request, pending, invoked, printed, nRequests, nRounds,
                 nInvoked, allToolResp, toolFailures>>

\* ui.hide_status() (line 150) or ui.set_status (line 157) raises before the
\* first request of a direct call: the copy is made, no request is
CallUiFails(method) ==
  /\ caller = "direct"
  /\ pc = "idle"
  /\ ui
  /\ LET cp == model_copy_deep(heap, initial_turn, nextOid)
     IN UiRaise(method, cp.heap, cp.turn, cp.nextOid, HiddenStatus)
  /\ UNCHANGED <<initial_turn, entry, stream, chunks>>
  /\ inFlight' = inFlight
  /\ uiCalls' = IF method = "set_status" THEN <<HideStatus>> ELSE <<>>

\* acompletion returned, ui.hide_status() (line 168) raises
AcompletionReturnsUiFails ==
  /\ pc = "requesting"
  /\ ui
  /\ UiRaise("hide_status", heap, new_turn, nextOid, status)
  /\ UNCHANGED <<uiCalls, initial_turn, entry, stream, chunks>>
  /\ inFlight' = [inFlight EXCEPT !.turns = @ - 1, !.requests = @ - 1,
                                   !.streams = @ + 1]

\* a chunk with content arrived, ui.print_streaming_token (line 176) raises
StreamChunkUiFails ==
  /\ pc = "streaming"
  /\ stream # <<>>
  /\ ui
  /\ Truthy(Head(stream).content)
  /\ chunks' = Append(chunks, Head(stream))
  /\ stream' = Tail(stream)
  /\ UiRaise("print_streaming_token", heap, new_turn, nextOid, status)
  /\ UNCHANGED <<uiCalls, initial_turn, entry>>
  /\ inFlight' = [inFlight EXCEPT !.turns = @ - 1]

\* the stream ended and a tool round begins (lines 179-217): the assistant
\* message is recorded, loop_count incremented, then ui.set_status raises
StreamEndUiFails ==
  /\ pc = "streaming"
  /\ stream = <<>>
  /\ chunks # <<>>
  /\ ui
  /\ LET assistant_msg == stream_chunk_builder(chunks)
     IN /\ ~NoToolsToRun(client, assistant_msg)
        /\ ~LoopBoundReached(new_turn, max_tool_loops)
        /\ UiRaise("set_status",
                   add_raw(heap, new_turn, nextOid, assistant_msg, "usage"),
                   BeginRound(new_turn, assistant_msg.tool_calls), nextOid + 1, status)
  /\ UNCHANGED <<uiCalls, initial_turn, entry, stream, chunks>>
  /\ inFlight' = [EndedAt(inFlight, "streaming") EXCEPT !.turns = @ - 1]

\* run_tool returned or raised (lines 220-242, then 217 or 157): ui.hide_status
\* raises before the tool step is recorded, or ui.set_status raises after it
ToolEndsUiFails(outcome, recorded) ==
  /\ pc = "invoking"
  /\ ui
  /\ run_tool(invoked.name, outcome).raised => toolFailures < MaxToolFailures
  /\ LET tc == Head(pending)
         res == run_tool(invoked.name, outcome)
         result == IF res.raised
                     THEN ToolErrorText(invoked.name, res.text, tc.function.arguments)
                     ELSE res.text
     IN IF recorded
          THEN UiRaise("set_status",
                       add_tool(heap, new_turn, nextOid, tc.function.name, result, tc.id),
                       new_turn, nextOid + 1, HiddenStatus)
          ELSE UiRaise("hide_status", heap, new_turn, nextOid, status)
  /\ UNCHANGED <<initial_turn, entry, stream, chunks>>
  /\ inFlight' = [EndedAt(inFlight, "invoking") EXCEPT !.turns = @ - 1]
  /\ uiCalls' = IF recorded
                  THEN uiCalls \o StatusAfterTool(run_tool(invoked.name, outcome).raised)
                  ELSE uiCalls

\* a call of the UI sink raises
UiSinkRaises ==
  \/ AcompletionReturnsUiFails
  \/ StreamChunkUiFails
  \/ StreamEndUiFails
  \/ \E o \in ToolOutcomes(invoked.name), recorded \in BOOLEAN : ToolEndsUiFails(o, recorded)

EngineStep ==
  \/ \E s \in ModelStreams : AcompletionReturns(s)
  \/ AcompletionFails
  \/ StreamChunk
  \/ StreamFails
  \/ StreamEnd
  \/ \E o \in ToolOutcomes(invoked.name) : ToolReturns(o)
  \/ \E o \in ToolOutcomes(invoked.name) : ToolRaises(o)
  \/ Cancel
  \/ UiSinkRaises

\* ------------------------------------------------- complete_turn called once

Init ==
  /\ caller = "direct"
  /\ \E steps \in InputSteps, k \in 0..MaxLoopCount :
       /\ heap = <<steps>>
       /\ nextOid = Len(steps) + 1
       /\ initial_turn = Turn(1, k)
       /\ entry = [steps |-> steps, loop_count |-> k]
  /\ max_tool_loops \in 0..MaxToolLoops
  /\ client \in BOOLEAN
  /\ tools \in Catalogs
  /\ ui \in BOOLEAN
  /\ new_turn = NoTurn
  /\ pc = "idle"
  /\ request = BuildRequest(<<>>, <<>>)
  /\ stream = <<>>
  /\ chunks = <<>>
  /\ pending = <<>>
  /\ invoked = NoInvocation
  /\ status = HiddenStatus
  /\ printed = <<>>
  /\ failure = "none"
  /\ conversation = <<>>
  /\ replPc = "none"
  /\ turnsLeft = 0
  /\ nRequests = 0
  /\ nRounds = 0
  /\ nInvoked = 0
  /\ allToolResp = TRUE
  /\ toolFailures = 0
  /\ lastEvent = Event("none", NoCall, <<>>)
  /\ inFlight = NothingInFlight
  /\ uiCalls = <<>>
  /\ budget = 0
  /\ full_exchange_history = <<>>
  /\ exchange_summary = <<>>
  /\ histPc = "none"
  /\ exchange = [none |-> TRUE]
  /\ tool_result = NoToolResult
  /\ callOutcome = NoOutcome
  /\ repl_ui = NoReplUi
  /\ stderr_line = <<>>

Next ==
  \/ Call
  \/ \E method \in {"hide_status", "set_status"} : CallUiFails(method)
  \/ EngineStep

Spec == Init /\ [][Next]_vars

\* every await of complete_turn eventually resumes
FairSpec == Spec /\ WF_vars(Next)

\* --------------------------------------------------------------- run_repl

RECURSIVE LStrip(_)
LStrip(text) ==
  IF text # <<>> /\ IsWhitespace(Head(text)) THEN LStrip(Tail(text)) ELSE text

RECURSIVE RStrip(_)
RStrip(text) ==
  IF text # <<>> /\ IsWhitespace(text[Len(text)])
    THEN RStrip(SubSeq(text, 1, Len(text) - 1)) ELSE text

\* user_input.strip()
Strip(text) == RStrip(LStrip(text))

\* what session.prompt_async() can return
ReplInputs ==
  { <<>>, <<" ">>, <<"/help">>, <<"/config", "\n">>, <<"/creds">>, <<"/summary">>,
    <<"/tools">>, <<"/exit">>, <<"/quit">>, <<" ", "hi", " ", "there", " ">> }

\* the inputs that are neither blank nor a REPL command
IsOrdinary(text) ==
  /\ text # <<>>
  /\ text \notin { <<"/exit">>, <<"/quit">>, <<"/config">>, <<"/creds">>, <<"/help">>,
                   <<"/summary">>, <<"/tools">> }

\* KeyboardInterrupt or EOFError at the prompt: "Exiting."
ReplInterrupt ==
  /\ caller = "repl"
  /\ replPc = "prompt"
  /\ replPc' = "exited"
  /\ lastEvent' = Event("interrupt", NoCall, <<>>)
  /\ UNCHANGED <<inFlight, uiCalls, argVars, heap, nextOid, initial_turn, new_turn, pc, request, stream,
                 chunks, pending, invoked, status, printed, failure, conversation,
                 turnsLeft, entry, nRequests, nRounds, nInvoked, allToolResp, toolFailures>>

\* /exit or /quit: "Goodbye."
ReplExit(inp) ==
  /\ caller = "repl"
  /\ replPc = "prompt"
  /\ Strip(inp) \in {<<"/exit">>, <<"/quit">>}
  /\ replPc' = "exited"
  /\ lastEvent' = Event("exit", NoCall, <<>>)
  /\ UNCHANGED <<inFlight, uiCalls, argVars, heap, nextOid, initial_turn, new_turn, pc, request, stream,
                 chunks, pending, invoked, status, printed, failure, conversation,
                 turnsLeft, entry, nRequests, nRounds, nInvoked, allToolResp, toolFailures>>

\* blank input, /config, /creds, /help: back to the prompt
ReplContinue(inp) ==
  /\ caller = "repl"
  /\ replPc = "prompt"
  /\ Strip(inp) \in {<<>>, <<"/config">>, <<"/creds">>, <<"/help">>}
  /\ lastEvent' = Event("command", NoCall, <<>>)
  /\ UNCHANGED <<inFlight, uiCalls, argVars, replVars, heap, nextOid, initial_turn, new_turn, pc,
                 request, stream, chunks, pending, invoked, status, printed, failure,
                 entry, nRequests, nRounds, nInvoked, allToolResp, toolFailures>>

\* /summary calls conversation.exchange_summary(), which Conversation does not
\* define: the AttributeError leaves run_repl
ReplSummary(inp) ==
  /\ caller = "repl"
  /\ replPc = "prompt"
  /\ Strip(inp) = <<"/summary">>
  /\ replPc' = "crashed"
  /\ lastEvent' = Event("summary", NoCall, <<>>)
  /\ UNCHANGED <<inFlight, uiCalls, argVars, heap, nextOid, initial_turn, new_turn, pc, request, stream,
                 chunks, pending, invoked, status, printed, failure, conversation,
                 turnsLeft, entry, nRequests, nRounds, nInvoked, allToolResp, toolFailures>>

\* /tools lists the tools of the servers: back to the prompt, or the listing's
\* exception leaves run_repl
ReplTools(inp, listed) ==
  /\ caller = "repl"
  /\ replPc = "prompt"
  /\ Strip(inp) = <<"/tools">>
  /\ replPc' = IF listed THEN "prompt" ELSE "crashed"
  /\ lastEvent' = Event("tools", NoCall, <<>>)
  /\ UNCHANGED <<inFlight, uiCalls, argVars, heap, nextOid, initial_turn, new_turn, pc, request, stream,
                 chunks, pending, invoked, status, printed, failure, conversation,
                 turnsLeft, entry, nRequests, nRounds, nInvoked, allToolResp, toolFailures>>

\* ordinary input (lines 366-375): build the turn and call complete_turn, which
\* runs up to its first await; an exception of create_initial_turn leaves run_repl
ReplTurn(inp) ==
  /\ caller = "repl"
  /\ replPc = "prompt"
  /\ turnsLeft > 0
  /\ IsOrdinary(Strip(inp))
  /\ LET made == create_initial_turn(heap, nextOid, Strip(inp), conversation)
     IN IF made.raised
          THEN /\ replPc' = "crashed"
               /\ lastEvent' = Event("create_failed", NoCall, <<>>)
               /\ UNCHANGED <<inFlight, uiCalls, heap, nextOid, initial_turn, new_turn, pc, request,
                              stream, chunks, pending, invoked, status, printed,
                              failure, conversation, turnsLeft, entry, nRequests,
                              nRounds, nInvoked, allToolResp, toolFailures>>
          ELSE /\ EnterTurn(made.heap, made.turn, made.nextOid)
               /\ replPc' = "turn"
               /\ turnsLeft' = turnsLeft - 1
               /\ UNCHANGED conversation
  /\ UNCHANGED argVars

\* ordinary input whose turn is built, then ui.hide_status() (line 150) or
\* ui.set_status (line 157) raises in complete_turn before the first request
ReplTurnUiFails(inp, method) ==
  /\ caller = "repl"
  /\ replPc = "prompt"
  /\ turnsLeft > 0
  /\ IsOrdinary(Strip(inp))
  /\ ui
  /\ LET made == create_initial_turn(heap, nextOid, Strip(inp), conversation)
         cp == model_copy_deep(made.heap, made.turn, made.nextOid)
     IN /\ ~made.raised
        /\ initial_turn' = made.turn
        /\ entry' = [steps |-> StepsOf(made.heap, made.turn),
                     loop_count |-> made.turn.loop_count]
        /\ UiRaise(method, cp.heap, cp.turn, cp.nextOid, HiddenStatus)
  /\ UNCHANGED <<stream, chunks>>
  /\ inFlight' = inFlight
  /\ uiCalls' = IF method = "set_status" THEN <<HideStatus>> ELSE <<>>

InitRepl ==
  /\ caller = "repl"
  /\ heap = <<>>
  /\ nextOid = 1
  /\ initial_turn = NoTurn
  /\ entry = [steps |-> <<>>, loop_count |-> 0]
  /\ max_tool_loops = DefaultMaxToolLoops
  /\ client = TRUE
  /\ tools \in Catalogs
  /\ ui = TRUE
  /\ new_turn = NoTurn
  /\ pc = "idle"
  /\ request = BuildRequest(<<>>, <<>>)
  /\ stream = <<>>
  /\ chunks = <<>>
  /\ pending = <<>>
  /\ invoked = NoInvocation
  /\ status = HiddenStatus
  /\ printed = <<>>
  /\ failure = "none"
  /\ conversation = <<>>
  /\ replPc = "prompt"
  /\ turnsLeft = MaxTurns
  /\ nRequests = 0
  /\ nRounds = 0
  /\ nInvoked = 0
  /\ allToolResp = TRUE
  /\ toolFailures = 0
  /\ lastEvent = Event("none", NoCall, <<>>)
  /\ inFlight = NothingInFlight
  /\ uiCalls = <<>>
  /\ budget = 0
  /\ full_exchange_history = <<>>
  /\ exchange_summary = <<>>
  /\ histPc = "none"
  /\ exchange = [none |-> TRUE]
  /\ tool_result = NoToolResult
  /\ callOutcome = NoOutcome
  /\ repl_ui = NoReplUi
  /\ stderr_line = <<>>

ReplStep ==
  \/ ReplInterrupt
  \/ \E inp \in ReplInputs : ReplExit(inp)
  \/ \E inp \in ReplInputs : ReplContinue(inp)
  \/ \E inp \in ReplInputs : ReplSummary(inp)
  \/ \E inp \in ReplInputs, listed \in BOOLEAN : ReplTools(inp, listed)
  \/ \E inp \in ReplInputs : ReplTurn(inp)
  \/ \E inp \in ReplInputs, method \in {"hide_status", "set_status"} :
       ReplTurnUiFails(inp, method)

NextRepl == ReplStep \/ EngineStep

SpecRepl == InitRepl /\ [][NextRepl]_vars

\* ------------------------------------------- the history of create_initial_turn

RECURSIVE Words(_)
\* a text of n words separated by single spaces
Words(n) ==
  IF n = 0 THEN <<>> ELSE IF n = 1 THEN <<"w">> ELSE <<"w", " ">> \o Words(n - 1)

\* a prior turn with a short question and a short final answer
TurnCheap ==
  <<Step(1, Message("system", SystemPrompt, <<>>, NoneStr, NoneStr), "None"),
    Step(2, Message("user", Words(1), <<>>, NoneStr, NoneStr), "None"),
    Step(3, Message("assistant", Words(1), <<>>, NoneStr, NoneStr), "usage")>>

\* a prior turn as run_repl stores it after one tool round: the history
\* summary, a four-word question, a tool round, a four-word final answer
TurnTen ==
  <<Step(1, Message("system", SystemPrompt, <<>>, NoneStr, NoneStr), "None"),
    Step(2, Message("assistant", HistorySummary(<<>>), <<>>, NoneStr, NoneStr), "None"),
    Step(3, Message("user", Words(4), <<>>, NoneStr, NoneStr), "None"),
    Step(4, Message("assistant", NoneText, <<CallEcho>>, NoneStr, NoneStr), "usage"),
    Step(5, Message("tool", <<"\"", "sunny", "\"">>, <<>>, "call_2", "echo"), "None"),
    Step(6, Message("assistant", Words(4), <<>>, NoneStr, NoneStr), "usage")>>

\* Turn(): the turn Conversation.add_turn() creates when it is given none
TurnNoSteps == <<>>

\* a prior turn that ended at the loop bound: its last assistant message has
\* tool calls and no content
TurnToolOnly ==
  <<Step(1, Message("system", SystemPrompt, <<>>, NoneStr, NoneStr), "None"),
    Step(2, Message("user", Words(1), <<>>, NoneStr, NoneStr), "None"),
    Step(3, Message("assistant", NoneText, <<CallEcho>>, NoneStr, NoneStr), "usage")>>

PriorTurnShapes == {TurnCheap, TurnTen, TurnNoSteps, TurnToolOnly}

\* the max_tokens the selector is called with
HistoryBudgets == {0, 5, 12, 25}

\* full_exchange_history = conversation.get_exchange_summary() (line 281)
Summarize ==
  /\ caller = "history"
  /\ histPc = "start"
  /\ full_exchange_history' = get_exchange_summary(heap, conversation)
  /\ histPc' = "summarized"
  /\ lastEvent' = Event("summarized", NoCall, <<>>)
  /\ UNCHANGED <<inFlight, uiCalls, caller, max_tool_loops, client, tools, ui, budget, exchange_summary,
                 exchange, tool_result, callOutcome, repl_ui, stderr_line,
                 heap, nextOid, initial_turn, new_turn, pc, request, stream, chunks,
                 pending, invoked, status, printed, failure, replVars, entry,
                 nRequests, nRounds, nInvoked, allToolResp, toolFailures>>

\* exchange_summary = select_history_by_token_budget(full_exchange_history,
\* max_tokens) (line 283), or the exception estimate_tokens raises
Select ==
  /\ caller = "history"
  /\ histPc = "summarized"
  /\ LET sel == select_history_by_token_budget(full_exchange_history, budget)
     IN IF sel.raised
          THEN histPc' = "raised" /\ UNCHANGED exchange_summary
          ELSE histPc' = "selected" /\ exchange_summary' = sel.selected
  /\ lastEvent' = Event("selected", NoCall, <<>>)
  /\ UNCHANGED <<inFlight, uiCalls, caller, max_tool_loops, client, tools, ui, budget, exchange,
                 tool_result, callOutcome, repl_ui, stderr_line, full_exchange_history, heap, nextOid, initial_turn, new_turn, pc,
                 request, stream, chunks, pending, invoked, status, printed, failure,
                 replVars, entry, nRequests, nRounds, nInvoked, allToolResp,
                 toolFailures>>

\* the user inputs create_initial_turn is called with
UserInputs == {<<"hi">>, <<"and", " ", "then?">>}

\* create_initial_turn(config, user_input, conversation), as a whole: the new
\* turn, or the exception the history selector raises
CreateInitialTurn(user_input) ==
  /\ caller = "history"
  /\ histPc = "start"
  /\ LET made == create_initial_turn(heap, nextOid, user_input, conversation)
     IN /\ histPc' = IF made.raised THEN "create_raised" ELSE "created"
        /\ heap' = made.heap
        /\ nextOid' = made.nextOid
        /\ initial_turn' = IF made.raised THEN initial_turn ELSE made.turn
  /\ lastEvent' = Event("create_initial_turn", NoCall, user_input)
  /\ UNCHANGED <<inFlight, uiCalls, caller, max_tool_loops, client, tools, ui, budget, exchange,
                 tool_result, callOutcome, repl_ui, stderr_line, full_exchange_history, exchange_summary, new_turn, pc,
                 request, stream, chunks, pending, invoked, status, printed, failure,
                 replVars, entry, nRequests, nRounds, nInvoked, allToolResp,
                 toolFailures>>

InitHistory ==
  /\ caller = "history"
  /\ heap \in UNION {[1..n -> PriorTurnShapes] : n \in 0..MaxPriorTurns}
  /\ conversation = [i \in 1..Len(heap) |-> Turn(i, 0)]
  /\ budget \in HistoryBudgets
  /\ full_exchange_history = <<>>
  /\ exchange_summary = <<>>
  /\ histPc = "start"
  /\ exchange = [none |-> TRUE]
  /\ tool_result = NoToolResult
  /\ callOutcome = NoOutcome
  /\ repl_ui = NoReplUi
  /\ stderr_line = <<>>
  /\ nextOid = 1
  /\ initial_turn = NoTurn
  /\ entry = [steps |-> <<>>, loop_count |-> 0]
  /\ max_tool_loops = DefaultMaxToolLoops
  /\ client = FALSE
  /\ tools = <<>>
  /\ ui = FALSE
  /\ new_turn = NoTurn
  /\ pc = "idle"
  /\ request = BuildRequest(<<>>, <<>>)
  /\ stream = <<>>
  /\ chunks = <<>>
  /\ pending = <<>>
  /\ invoked = NoInvocation
  /\ status = HiddenStatus
  /\ printed = <<>>
  /\ failure = "none"
  /\ replPc = "none"
  /\ turnsLeft = 0
  /\ nRequests = 0
  /\ nRounds = 0
  /\ nInvoked = 0
  /\ allToolResp = TRUE
  /\ toolFailures = 0
  /\ lastEvent = Event("none", NoCall, <<>>)
  /\ inFlight = NothingInFlight
  /\ uiCalls = <<>>

NextHistory ==
  \/ Summarize
  \/ Select
  \/ \E user_input \in UserInputs : CreateInitialTurn(user_input)

SpecHistory == InitHistory /\ [][NextHistory]_vars

\* ------------------------------------------------ functions called on their own

\* the variables of complete_turn's own state
engineVars == <<nextOid, initial_turn, new_turn, pc, request, stream, chunks, pending,
                invoked, status, printed, failure, entry, nRequests, nRounds,
                nInvoked, allToolResp, toolFailures, inFlight, uiCalls>>

\* no complete_turn was called and no REPL runs
EngineAtRest ==
  /\ nextOid = 1
  /\ initial_turn = NoTurn
  /\ entry = [steps |-> <<>>, loop_count |-> 0]
  /\ max_tool_loops = DefaultMaxToolLoops
  /\ client = FALSE
  /\ tools = <<>>
  /\ ui = FALSE
  /\ new_turn = NoTurn
  /\ pc = "idle"
  /\ request = BuildRequest(<<>>, <<>>)
  /\ stream = <<>>
  /\ chunks = <<>>
  /\ pending = <<>>
  /\ invoked = NoInvocation
  /\ status = HiddenStatus
  /\ printed = <<>>
  /\ failure = "none"
  /\ replPc = "none"
  /\ turnsLeft = 0
  /\ nRequests = 0
  /\ nRounds = 0
  /\ nInvoked = 0
  /\ allToolResp = TRUE
  /\ toolFailures = 0
  /\ lastEvent = Event("none", NoCall, <<>>)
  /\ inFlight = NothingInFlight
  /\ uiCalls = <<>>

\* the roles a message can have
Roles == {"system", "user", "assistant", "tool"}

\* the step at position i of a turn, told from the others by its text
StepWithRole(i, role) ==
  Step(i, Message(role, Words(i), <<>>, NoneStr, NoneStr), "None")

\* turn.get_exchange()
GetExchange ==
  /\ caller = "exchange"
  /\ histPc = "start"
  /\ exchange' = get_exchange(StepsOf(heap, conversation[1]))
  /\ histPc' = "extracted"
  /\ lastEvent' = Event("extracted", NoCall, <<>>)
  /\ UNCHANGED <<caller, max_tool_loops, client, tools, ui, budget,
                 full_exchange_history, exchange_summary, tool_result, callOutcome, repl_ui, stderr_line, heap,
                 replVars, engineVars>>

\* one turn with any sequence of up to MaxSteps steps of any roles
InitExchange ==
  /\ caller = "exchange"
  /\ \E n \in 0..MaxSteps : \E roles \in [1..n -> Roles] :
       heap = <<[i \in 1..n |-> StepWithRole(i, roles[i])]>>
  /\ conversation = <<Turn(1, 0)>>
  /\ budget = 0
  /\ full_exchange_history = <<>>
  /\ exchange_summary = <<>>
  /\ histPc = "start"
  /\ exchange = [none |-> TRUE]
  /\ tool_result = NoToolResult
  /\ callOutcome = NoOutcome
  /\ repl_ui = NoReplUi
  /\ stderr_line = <<>>
  /\ EngineAtRest

SpecExchange == InitExchange /\ [][GetExchange]_vars

\* conversation.add_turn(turn) with a turn of one of the modelled shapes; the
\* shape without steps is also the Turn() add_turn creates when it is given none
ConvAddTurn(steps) ==
  /\ caller = "conversation"
  /\ Len(heap) < MaxPriorTurns
  /\ heap' = Append(heap, steps)
  /\ conversation' = add_turn(conversation, Turn(Len(heap) + 1, 0))
  /\ lastEvent' = Event("add_turn", NoCall, <<>>)
  /\ UNCHANGED <<argVars, replPc, turnsLeft, engineVars>>

\* conversation.reset()
ConvReset ==
  /\ caller = "conversation"
  /\ conversation' = reset(conversation)
  /\ lastEvent' = Event("reset", NoCall, <<>>)
  /\ UNCHANGED <<argVars, heap, replPc, turnsLeft, engineVars>>

\* conversation.get_exchange_summary() and conversation.write_to_file(path):
\* both read the turns and change none
ConvRead(op) ==
  /\ caller = "conversation"
  /\ lastEvent' = Event(op, NoCall, <<>>)
  /\ UNCHANGED <<argVars, heap, replVars, engineVars>>

\* Conversation(): no turns
InitConversation ==
  /\ caller = "conversation"
  /\ heap = <<>>
  /\ conversation = <<>>
  /\ budget = 0
  /\ full_exchange_history = <<>>
  /\ exchange_summary = <<>>
  /\ histPc = "none"
  /\ exchange = [none |-> TRUE]
  /\ tool_result = NoToolResult
  /\ callOutcome = NoOutcome
  /\ repl_ui = NoReplUi
  /\ stderr_line = <<>>
  /\ EngineAtRest

NextConversation ==
  \/ \E steps \in PriorTurnShapes : ConvAddTurn(steps)
  \/ ConvReset
  \/ \E op \in {"get_exchange_summary", "write_to_file"} : ConvRead(op)

SpecConversation == InitConversation /\ [][NextConversation]_vars

\* ------------------------------------------------------------------ claims

\* the steps of the working copy
NewSteps == StepsOf(heap, new_turn)

\* the steps this invocation appended to the working copy
Appended == SubSeq(NewSteps, Len(entry.steps) + 1, Len(NewSteps))

\* sub occurs in text as a contiguous run of atoms
Contains(text, sub) ==
  \E i \in 1..(Len(text) - Len(sub) + 1) : SubSeq(text, i, i + Len(sub) - 1) = sub

Terminated == pc \in {"done", "raised"}

\* C1: with a tool executor configured and a model that requests a tool call in
\* every response, complete_turn(max_tool_loops = N) on a turn whose loop_count
\* is 0 has, when it returns, performed exactly N tool rounds and N + 1 model
\* requests; the last response still requests tool calls, which are not run.
C1_LoopBoundRespected ==
  (pc = "done" /\ client /\ allToolResp /\ entry.loop_count = 0)
    => /\ nRounds = max_tool_loops
       /\ nRequests = max_tool_loops + 1
       /\ Cardinality(RoleIndices(Appended, "assistant")) = max_tool_loops + 1

C1_Witness ==
  /\ pc = "done" /\ client /\ allToolResp /\ entry.loop_count = 0
  /\ max_tool_loops = 2 /\ nRounds = 2 /\ nRequests = 3
  /\ NewSteps[Len(NewSteps)].message.tool_calls # <<>>

\* C2: complete_turn terminates when every await resumes, and on an input turn
\* with loop_count = k it makes at most max(0, max_tool_loops - k) + 1 model
\* requests, whatever the model and the tools do.
C2_Terminates ==
  /\ [](nRequests <= Max({0, max_tool_loops - entry.loop_count}) + 1)
  /\ <>Terminated

C2_Witness ==
  /\ pc = "done" /\ entry.loop_count = 1 /\ max_tool_loops = 2
  /\ nRequests = 2 /\ ~allToolResp

\* C3: when a tool invocation raises, complete_turn does not raise: the tool
\* step appended for the call carries the call's id and tool name, and its
\* content is error text naming the tool, the error message and the original
\* arguments; the engine goes on to the next call or the next request.
C3_ToolFailureContained ==
  lastEvent.kind = "tool_raised"
    => /\ pc \in {"invoking", "requesting"}
       /\ failure = "none"
       /\ LET last == NewSteps[Len(NewSteps)].message
              tc == lastEvent.call
          IN /\ last.role = "tool"
             /\ last.tool_call_id = tc.id
             /\ last.name = tc.function.name
             /\ Contains(last.content, <<"TOOL_ERROR:">>)
             /\ Contains(last.content, <<"'", tc.function.name, "'">>)
             /\ Contains(last.content, <<"Error:", " ">> \o lastEvent.text)
             /\ Contains(last.content, <<"arguments:", " ", tc.function.arguments>>)

\* a returned turn that holds the error text of the failed call "boom"
C3_Witness ==
  /\ pc = "done"
  /\ \E i \in 1..Len(Appended) :
       /\ Appended[i].message.role = "tool"
       /\ Appended[i].message.name = "boom"
       /\ Contains(Appended[i].message.content, <<"TOOL_ERROR:">>)
       /\ Contains(Appended[i].message.content, <<"'", "boom", "'">>)

\* C4: a failure of the model collaborator, at the request or while streaming,
\* leaves complete_turn as a raised error; after it that invocation makes no
\* model request, invokes no tool and returns no turn.
C4_ModelFailurePropagates ==
  /\ [](lastEvent.kind = "model_failed" => (pc = "raised" /\ failure = "model_failed"))
  /\ [][pc = "raised" => (pc' = "raised" /\ nRequests' = nRequests
                          /\ nInvoked' = nInvoked /\ heap' = heap)]_vars

\* the model failed in the stream that followed a tool round
C4_Witness ==
  /\ pc = "raised" /\ failure = "model_failed" /\ nRounds = 1 /\ chunks # <<>>

\* C5: complete_turn never mutates the turn passed in: at every moment of the
\* call, and on every exit, the caller's turn has the steps and the loop_count
\* it had at the call, and the working copy shares neither the list nor any
\* Step with it.
C5_InputNotMutated ==
  pc # "idle"
    => /\ StepsOf(heap, initial_turn) = entry.steps
       /\ initial_turn.loop_count = entry.loop_count
       /\ new_turn.steps # initial_turn.steps
       /\ \A i \in 1..Len(NewSteps), j \in 1..Len(entry.steps) :
            NewSteps[i].oid # entry.steps[j].oid

\* a cancelled call whose working copy had already grown and counted a round
C5_Witness ==
  /\ pc = "raised" /\ failure = "cancelled"
  /\ Len(NewSteps) > Len(entry.steps)
  /\ new_turn.loop_count > initial_turn.loop_count

\* a turn and a conversation as values: the steps the references lead to
TurnValue(h, turn) == [steps |-> StepsOf(h, turn), loop_count |-> turn.loop_count]

ConvValue(h, turns) == [i \in 1..Len(turns) |-> TurnValue(h, turns[i])]

\* C6: in run_repl the Conversation changes only by appending the turn a
\* successful complete_turn returned; a step in which complete_turn raises
\* leaves the Conversation holding exactly the turns it held.
C6_FailedTurnNotAppended ==
  [][/\ ConvValue(heap', conversation') # ConvValue(heap, conversation)
          => /\ pc' = "done"
             /\ lastEvent'.kind = "stream_ended"
             /\ ConvValue(heap', conversation')
                  = Append(ConvValue(heap, conversation), TurnValue(heap', new_turn'))
     /\ pc' = "raised" => ConvValue(heap', conversation') = ConvValue(heap, conversation)
    ]_vars

\* the model failed during the second turn: the Conversation holds the first
C6_Witness ==
  /\ caller = "repl" /\ replPc = "crashed"
  /\ pc = "raised" /\ failure = "model_failed"
  /\ Len(conversation) = 1
  /\ conversation[1].steps # new_turn.steps

\* the steps that follow the last assistant step
TrailingSteps(steps) == Len(steps) - Max(RoleIndices(steps, "assistant"))

\* C7: a cancellation delivered while a model request, a model stream or a tool
\* invocation is in flight leaves complete_turn as a raised error: no tool step
\* is recorded for the call in flight, the loop does not go on, and the turn in
\* progress is not in the Conversation.
C7_CancellationAborts ==
  lastEvent.kind = "cancelled"
    => /\ pc = "raised"
       /\ failure = "cancelled"
       /\ replPc = "crashed"
       /\ \A i \in 1..Len(conversation) : conversation[i].steps # new_turn.steps
       /\ lastEvent.call # NoCall
            => /\ pending # <<>>
               /\ Head(pending) = lastEvent.call
               /\ LET asst == NewSteps[Max(RoleIndices(NewSteps, "assistant"))].message
                  IN TrailingSteps(NewSteps) = Len(asst.tool_calls) - Len(pending)

\* the second turn was cancelled while the tool "boom" was running
C7_Witness ==
  /\ caller = "repl"
  /\ lastEvent.kind = "cancelled"
  /\ lastEvent.call = CallBoom
  /\ Len(conversation) = 1

\* C8 as stated: for any successful complete_turn the returned turn has at
\* least as many steps as the input, its loop_count is not smaller than the
\* input's and is <= max_tool_loops.
C8_Original ==
  pc = "done"
    => /\ Len(NewSteps) >= Len(entry.steps)
       /\ new_turn.loop_count >= entry.loop_count
       /\ new_turn.loop_count <= max_tool_loops

\* C8 amended: for any successful complete_turn the returned turn has at least
\* as many steps as the input and its loop_count is not smaller than the
\* input's; it is <= max_tool_loops when the input's loop_count is, and equal
\* to the input's loop_count otherwise.
C8_TurnMonotonic ==
  pc = "done"
    => /\ Len(NewSteps) >= Len(entry.steps)
       /\ new_turn.loop_count >= entry.loop_count
       /\ entry.loop_count <= max_tool_loops => new_turn.loop_count <= max_tool_loops
       /\ entry.loop_count > max_tool_loops => new_turn.loop_count = entry.loop_count

\* a returned turn whose loop_count grew up to the bound
C8_Witness ==
  /\ pc = "done" /\ entry.loop_count = 1 /\ max_tool_loops = 2
  /\ new_turn.loop_count = 2
  /\ Len(NewSteps) > Len(entry.steps)

\* C9: when the tool catalog is empty, complete_turn returns after exactly one
\* model request and with loop_count unchanged, whatever the response contains
\* and whether or not a tool executor is configured.
C9_NoToolsTermination ==
  (pc = "done" /\ tools = <<>>)
    => /\ nRequests = 1
       /\ new_turn.loop_count = entry.loop_count

\* the indices of the assistant steps this invocation appended
AppendedAssistants ==
  {i \in (Len(entry.steps) + 1)..Len(NewSteps) : NewSteps[i].message.role = "assistant"}

\* the index of the assistant step after i, or one past the end
NextAssistant(i) ==
  LET later == {j \in AppendedAssistants : j > i}
  IN IF later = {} THEN Len(NewSteps) + 1 ELSE Min(later)

\* step is the tool step of the call tc
IsToolStepOf(step, tc) ==
  /\ step.message.role = "tool"
  /\ step.message.tool_call_id = tc.id
  /\ step.message.name = tc.function.name

\* C10: the steps between an assistant message and the next one are the tool
\* steps of its calls, one per call, in the order the model listed them, each
\* with the call's id and tool name; all of them are there when the next model
\* request is made, and while a call is in flight exactly the calls before it
\* are recorded.  The message complete_turn returns with is followed by none.
C10_ToolStepsInOrder ==
  pc \in {"requesting", "streaming", "invoking", "done"}
    => \A i \in AppendedAssistants :
         LET calls == NewSteps[i].message.tool_calls
             recorded == NextAssistant(i) - i - 1
             last == NextAssistant(i) > Len(NewSteps)
         IN /\ recorded <= Len(calls)
            /\ \A c \in 1..recorded : IsToolStepOf(NewSteps[i + c], calls[c])
            /\ ~last => recorded = Len(calls)
            /\ (last /\ pc \in {"requesting", "streaming"}) => recorded = Len(calls)
            /\ (last /\ pc = "invoking")
                 => /\ recorded = Len(calls) - Len(pending)
                    /\ pending = SubSeq(calls, recorded + 1, Len(calls))
            /\ (last /\ pc = "done") => recorded = 0

\* the next request is being made after a round of two calls
C10_Witness ==
  /\ pc = "requesting" /\ nRounds = 1
  /\ Len(NewSteps) >= 3
  /\ NewSteps[Len(NewSteps) - 2].message.tool_calls = <<CallBoom, CallEcho>>
  /\ IsToolStepOf(NewSteps[Len(NewSteps) - 1], CallBoom)
  /\ IsToolStepOf(NewSteps[Len(NewSteps)], CallEcho)

\* the last message of a list of steps
LastMessage(steps) == steps[Len(steps)].message

\* C11: in run_repl every turn complete_turn returned ends with an assistant
\* step, and at every model request the last message sent is the user message
\* (first request of the turn) or a tool result (later requests), never an
\* assistant message.
C11_TurnShape ==
  /\ \A i \in 1..Len(conversation) :
       LastMessage(StepsOf(heap, conversation[i])).role = "assistant"
  /\ pc = "done" => LastMessage(NewSteps).role = "assistant"
  /\ pc = "requesting"
       => /\ request.messages = MessagesOf(NewSteps)
          /\ LastMessage(NewSteps).role = IF nRequests = 1 THEN "user" ELSE "tool"

\* the second request of the second turn, sent after a tool result
C11_Witness ==
  /\ caller = "repl" /\ pc = "requesting" /\ nRequests = 2
  /\ Len(conversation) = 1
  /\ LastMessage(NewSteps).role = "tool"
  /\ NewSteps[3].message.role = "user"

\* C12: when the assistant message carries tool calls, an executor is
\* configured and loop_count >= max_tool_loops at the tool check, complete_turn
\* returns without raising: the assistant message is recorded as built, still
\* carrying its tool calls, no call is invoked, no tool step follows, no further
\* request is made and loop_count is not incremented.
C12_LoopCapReturns ==
  /\ []((pc = "done" /\ client /\ LastMessage(NewSteps).tool_calls # <<>>)
          => (new_turn.loop_count >= max_tool_loops /\ failure = "none"))
  /\ [][(/\ pc = "streaming"
         /\ lastEvent'.kind = "stream_ended"
         /\ client
         /\ stream_chunk_builder(chunks).tool_calls # <<>>
         /\ new_turn.loop_count >= max_tool_loops)
        => /\ pc' = "done"
           /\ failure' = "none"
           /\ new_turn' = new_turn
           /\ StepsOf(heap', new_turn')
                = Append(NewSteps, Step(nextOid, stream_chunk_builder(chunks), "usage"))
           /\ LastMessage(StepsOf(heap', new_turn')).tool_calls # <<>>
           /\ nInvoked' = nInvoked
           /\ nRequests' = nRequests
       ]_vars

\* a turn entered above the bound is returned after one request, its two
\* requested calls never run
C12_Witness ==
  /\ pc = "done" /\ client
  /\ entry.loop_count = 3 /\ max_tool_loops = 2
  /\ LastMessage(NewSteps).tool_calls = <<CallBoom, CallEcho>>
  /\ new_turn.loop_count = 3 /\ nInvoked = 0 /\ nRequests = 1

\* C13: if no tool executor is configured or the assistant message carries no
\* tool calls, complete_turn stops at that message: it returns with the message
\* as its last step, invokes no tool, appends no tool step, leaves loop_count
\* as it was and makes no further model request.
C13_StopsWithoutTools ==
  /\ []((pc = "done" /\ ~client) => (nInvoked = 0 /\ nRequests = 1))
  /\ [][(/\ pc = "streaming"
         /\ lastEvent'.kind = "stream_ended"
         /\ (~client \/ stream_chunk_builder(chunks).tool_calls = <<>>))
        => /\ pc' = "done"
           /\ new_turn' = new_turn
           /\ StepsOf(heap', new_turn')
                = Append(NewSteps, Step(nextOid, stream_chunk_builder(chunks), "usage"))
           /\ nInvoked' = nInvoked
           /\ nRounds' = nRounds
           /\ nRequests' = nRequests
       ]_vars

\* without an executor, a response with two tool calls ends the turn although
\* the loop bound is not reached
C13_Witness ==
  /\ pc = "done" /\ ~client
  /\ entry.loop_count = 0 /\ max_tool_loops = 2
  /\ LastMessage(NewSteps).tool_calls = <<CallBoom, CallEcho>>
  /\ new_turn.loop_count = 0 /\ nInvoked = 0
  /\ RoleIndices(Appended, "tool") = {}

\* C14: only transport/model failures leave complete_turn as raised errors:
\* whatever the tools, the tool-call payloads and the UI sink do, an exception
\* that leaves complete_turn is a failure of the model collaborator (or the
\* cancellation of the call itself).
C14_OnlyModelFailuresRaise ==
  pc = "raised" => failure \in {"model_failed", "cancelled"}

\* C15: a failure raised by a UI sink call (set_status, hide_status,
\* print_streaming_token) does not abort the turn: complete_turn does not end
\* as a raised error because of it.
C15_UiFailureDoesNotAbort ==
  (lastEvent.kind = "ui_failed"
     /\ lastEvent.text \in {<<"set_status">>, <<"hide_status">>,
                            <<"print_streaming_token">>})
    => pc # "raised"

\* the argument payloads json.loads cannot parse
UnparsablePayloads == {MalformedPayload, EmptyPayload}

\* C16: a tool call whose argument payload is malformed JSON or empty is still
\* invoked, with an empty argument map; the turn is not aborted, and the call's
\* outcome, result or failure, is recorded as that call's tool step.
C16_MalformedArgsTolerated ==
  /\ (pc = "invoking" /\ Head(pending).function.arguments \in UnparsablePayloads)
       => invoked = [name |-> Head(pending).function.name,
                     args |-> [kind |-> "dict", keys |-> {}]]
  /\ (/\ lastEvent.kind \in {"tool_returned", "tool_raised"}
      /\ lastEvent.call.function.arguments \in UnparsablePayloads)
       => /\ pc \in {"invoking", "requesting"}
          /\ failure = "none"
          /\ IsToolStepOf(NewSteps[Len(NewSteps)], lastEvent.call)
          /\ Contains(LastMessage(NewSteps).content, <<"TOOL_ERROR:">>)
               <=> lastEvent.kind = "tool_raised"

\* a returned turn in which the call with the malformed payload got its result
\* and the call with the empty payload its error text
C16_Witness ==
  /\ pc = "done"
  /\ \E i, j \in 1..Len(Appended) :
       /\ IsToolStepOf(Appended[i], CallBoom)
       /\ Appended[i].message.content = <<"\"", "sunny", "\"">>
       /\ IsToolStepOf(Appended[j], CallEmpty)
       /\ Contains(Appended[j].message.content, <<"TOOL_ERROR:">>)

\* the estimated token cost of one exchange
PairTokens(pc_) == estimate_tokens(pc_.user) + estimate_tokens(pc_.assistant)

RECURSIVE TotalTokens(_)
\* the summed estimated cost of a list of exchanges
TotalTokens(exchanges) ==
  IF exchanges = <<>> THEN 0
  ELSE PairTokens(Head(exchanges)) + TotalTokens(Tail(exchanges))

\* C17: the summed estimated token cost of the exchanges the history selector
\* returns is <= max_tokens; every returned exchange is an exchange of the
\* input, whole; an empty input gives an empty result, and so does a single
\* exchange that costs more than max_tokens.
C17_HistoryBudget ==
  histPc = "selected"
    => /\ TotalTokens(exchange_summary) <= budget
       /\ Len(exchange_summary) <= Len(full_exchange_history)
       /\ \A i \in 1..Len(exchange_summary) :
            \E j \in 1..Len(full_exchange_history) :
              exchange_summary[i] = full_exchange_history[j]
       /\ full_exchange_history = <<>> => exchange_summary = <<>>
       /\ (Len(full_exchange_history) = 1
           /\ PairTokens(full_exchange_history[1]) > budget)
            => exchange_summary = <<>>

\* three exchanges of 10 tokens under a budget of 25: 20 tokens selected
C17_Witness ==
  /\ histPc = "selected" /\ budget = 25
  /\ Len(full_exchange_history) = 3
  /\ \A i \in 1..3 : PairTokens(full_exchange_history[i]) = 10
  /\ TotalTokens(exchange_summary) = 20

\* the last n elements of a sequence
Suffix(seq, n) == SubSeq(seq, Len(seq) - n + 1, Len(seq))

\* C18: the history selector returns a contiguous suffix of its input, the most
\* recent exchanges without gaps, in the input's oldest-to-newest order; it
\* never skips an exchange that would overflow to include an older one.
C18_ContiguousSuffix ==
  histPc = "selected"
    => /\ Len(exchange_summary) <= Len(full_exchange_history)
       /\ exchange_summary = Suffix(full_exchange_history, Len(exchange_summary))

\* an older exchange of 2 tokens would fit the budget of 5, the newer one of
\* 10 tokens does not: nothing is selected
C18_Witness ==
  /\ histPc = "selected" /\ budget = 5
  /\ Len(full_exchange_history) = 2
  /\ PairTokens(full_exchange_history[1]) = 2
  /\ PairTokens(full_exchange_history[2]) = 10
  /\ exchange_summary = <<>>

\* C19: the history selector returns the longest suffix of the input that fits
\* the budget: it returns the whole input, or adding the exchange just before
\* the returned window would push the total over max_tokens; costs [10,10,10]
\* give the two newest under a budget of 25 and none under a budget of 5.
C19_LongestSuffix ==
  histPc = "selected"
    => LET n == Len(full_exchange_history)
           k == Len(exchange_summary)
       IN /\ k <= n
          /\ exchange_summary = Suffix(full_exchange_history, k)
          /\ \/ k = n
             \/ TotalTokens(exchange_summary) + PairTokens(full_exchange_history[n - k])
                  > budget
          /\ (n = 3 /\ \A i \in 1..3 : PairTokens(full_exchange_history[i]) = 10)
               => /\ budget = 25 => exchange_summary = Suffix(full_exchange_history, 2)
                  /\ budget = 5 => exchange_summary = <<>>

\* the window of 10 and 2 tokens fills the budget of 12 exactly; the exchange
\* before it does not fit
C19_Witness ==
  /\ histPc = "selected" /\ budget = 12
  /\ Len(full_exchange_history) = 3
  /\ Len(exchange_summary) = 2
  /\ PairTokens(exchange_summary[1]) = 10
  /\ PairTokens(exchange_summary[2]) = 2
  /\ TotalTokens(exchange_summary) = budget

\* the prior turns that have an exchange, in turn order
TurnsWithExchange ==
  SelectSeq(conversation, LAMBDA turn : ~get_exchange(StepsOf(heap, turn)).none)

\* C20: the exchange list handed to the history selector has exactly one entry
\* per prior turn that has an exchange, in turn order; a turn with no user and
\* assistant pair contributes no entry.
C20_OneEntryPerExchange ==
  histPc \in {"summarized", "selected", "raised"}
    => /\ Len(full_exchange_history) = Len(TurnsWithExchange)
       /\ full_exchange_history = get_exchange_summary(heap, TurnsWithExchange)

\* the steps get_exchange was called on
ExchangeSteps == StepsOf(heap, conversation[1])

\* C21: for every sequence of steps, Turn.get_exchange returns the first user
\* step and the last assistant step, whatever system and tool steps surround
\* them, exactly when the turn has at least one user step and at least one
\* assistant step; otherwise it returns no exchange.
C21_ExchangeExtraction ==
  histPc = "extracted"
    => LET users == RoleIndices(ExchangeSteps, "user")
           assistants == RoleIndices(ExchangeSteps, "assistant")
       IN /\ exchange.none <=> (users = {} \/ assistants = {})
          /\ ~exchange.none
               => /\ exchange.user = ExchangeSteps[Min(users)]
                  /\ exchange.assistant = ExchangeSteps[Max(assistants)]
          /\ (Len(ExchangeSteps) = 4
              /\ [i \in 1..4 |-> ExchangeSteps[i].message.role]
                   = <<"system", "user", "tool", "assistant">>)
               => /\ ~exchange.none
                  /\ exchange.user = ExchangeSteps[2]
                  /\ exchange.assistant = ExchangeSteps[4]

\* two user steps and two assistant steps, the first assistant step before
\* the first user step: the exchange is (step 2, step 4)
C21_Witness ==
  /\ histPc = "extracted"
  /\ [i \in 1..Len(ExchangeSteps) |-> ExchangeSteps[i].message.role]
       = <<"assistant", "user", "user", "assistant">>
  /\ ~exchange.none
  /\ exchange.user.oid = 2
  /\ exchange.assistant.oid = 4

\* seq1 is a prefix of seq2
IsPrefix(seq1, seq2) ==
  Len(seq1) <= Len(seq2) /\ SubSeq(seq2, 1, Len(seq1)) = seq1

\* C22: the Conversation is append-only: whatever Conversation operation is
\* performed, every turn appended earlier is still present afterwards, at the
\* same position and unchanged; the turn list only grows at its end.
C22_AppendOnly ==
  [][IsPrefix(ConvValue(heap, conversation), ConvValue(heap', conversation'))]_vars

\* C23: for every Conversation, including one with zero turns,
\* create_initial_turn returns a turn with exactly three steps in order: the
\* system prompt, one assistant step holding the history summary of the
\* selected exchanges, and the new user input, with loop_count 0; no step of a
\* prior turn is replayed and the prior turns are left as they were.
C23_InitialTurnShape ==
  histPc \in {"created", "create_raised"}
    => /\ histPc = "created"
       /\ initial_turn.loop_count = 0
       /\ MessagesOf(StepsOf(heap, initial_turn))
            = << Message("system", SystemPrompt, <<>>, NoneStr, NoneStr),
                 Message("assistant",
                         HistorySummary(select_history_by_token_budget(
                           get_exchange_summary(heap, conversation),
                           MAX_HISTORY_TOKENS).selected),
                         <<>>, NoneStr, NoneStr),
                 Message("user", lastEvent.text, <<>>, NoneStr, NoneStr) >>
       /\ \A i \in 1..Len(conversation) :
            /\ conversation[i].steps # initial_turn.steps
            /\ StepsOf(heap, conversation[i]) \in PriorTurnShapes

ToolNames == {"boom", "echo"}

\* result.data: None, a value, or a value that is falsy
DataValues == {NoneStr, "sunny", ""}

\* a content block seen through getattr(block, "text", None): a text, the empty
\* text, or no text attribute (an image block)
BlockValues == {<<"1st">>, <<"2nd">>, <<>>, NoneText}

\* the content lists of up to MaxBlocks blocks
ContentLists ==
  UNION {[1..n -> BlockValues] : n \in 0..MaxBlocks}

\* what client.call_tool can return
CallResults ==
  { [kind |-> "result", data |-> d, content |-> c, no_content |-> FALSE,
     structured_content |-> sc, is_error |-> err, msg |-> <<>>] :
      d \in DataValues, c \in ContentLists, sc \in {NoneStr, "meta"},
      err \in {"false", "true"} }
  \cup
  { [kind |-> "result", data |-> d, content |-> <<>>, no_content |-> TRUE,
     structured_content |-> sc, is_error |-> err, msg |-> <<>>] :
      d \in DataValues, sc \in {NoneStr, "meta"}, err \in {"false", "true"} }

\* what client.call_tool can do: return, raise a ToolError, raise another
\* exception
CallOutcomes == CallResults \cup {OutcomeToolError, OutcomeException}

\* the argument payload strings a tool call can carry
ArgumentPayloads ==
  {ValidObjectPayload, MalformedPayload, EmptyPayload, ArrayPayload, NullPayload}

\* run_tool(client, name, args), awaited as complete_turn does for a tool call
\* with the payload arg_str (main.py 212-220), up to the end of
\* client.call_tool (utils.py 95)
CallTool(name, arg_str, o) ==
  /\ caller = "tool"
  /\ histPc = "start"
  /\ invoked' = Invocation(ToolCall("call_0", name, arg_str))
  /\ callOutcome' = o
  /\ histPc' = "called"
  /\ lastEvent' = Event("called", ToolCall("call_0", name, arg_str), <<>>)
  /\ UNCHANGED <<caller, max_tool_loops, client, tools, ui, budget,
                 full_exchange_history, exchange_summary, exchange, tool_result,
                 repl_ui, stderr_line, heap, replVars, nextOid, initial_turn, new_turn, pc, request,
                 stream, chunks, pending, status, printed, failure, entry,
                 nRequests, nRounds, nInvoked, allToolResp, toolFailures,
                 inFlight, uiCalls>>

\* the rest of run_tool (lines 96-118): it returns its text or raises
RunToolEnds ==
  /\ caller = "tool"
  /\ histPc = "called"
  /\ tool_result' = run_tool(invoked.name, callOutcome)
  /\ histPc' = IF run_tool(invoked.name, callOutcome).raised
                 THEN "tool_raised" ELSE "tool_returned"
  /\ lastEvent' = Event("ran", lastEvent.call, <<>>)
  /\ UNCHANGED <<caller, max_tool_loops, client, tools, ui, budget,
                 full_exchange_history, exchange_summary, exchange, callOutcome, repl_ui, stderr_line,
                 heap, replVars, engineVars>>

InitTool ==
  /\ caller = "tool"
  /\ heap = <<>>
  /\ conversation = <<>>
  /\ budget = 0
  /\ full_exchange_history = <<>>
  /\ exchange_summary = <<>>
  /\ histPc = "start"
  /\ exchange = [none |-> TRUE]
  /\ tool_result = NoToolResult
  /\ callOutcome = NoOutcome
  /\ repl_ui = NoReplUi
  /\ stderr_line = <<>>
  /\ EngineAtRest

NextTool ==
  \/ \E name \in ToolNames, arg_str \in ArgumentPayloads, o \in CallOutcomes :
       CallTool(name, arg_str, o)
  \/ RunToolEnds

SpecTool == InitTool /\ [][NextTool]_vars

\* the text blocks of a result that carry a non-empty text, in order
TextsOf(o) ==
  LET c == IF o.no_content THEN <<>> ELSE o.content
      F[i \in 0..Len(c)] ==
        IF i = 0 THEN <<>>
        ELSE IF c[i] \in {<<>>, NoneText} THEN F[i - 1]
        ELSE Append(F[i - 1], c[i])
  IN F[Len(c)]

\* C25: run_tool chooses its result by strict priority: the serialized data
\* whenever the collaborator supplies data, whatever the content blocks are;
\* otherwise the non-empty text blocks joined by newlines in the order
\* returned, when there is one; otherwise the serialized metadata
C25_ResultPriority ==
  (histPc \in {"tool_returned", "tool_raised"} /\ callOutcome.kind = "result")
    => /\ ~tool_result.raised
       /\ callOutcome.data # NoneStr
            => tool_result.text = <<"\"", callOutcome.data, "\"">>
       /\ (callOutcome.data = NoneStr /\ Len(TextsOf(callOutcome)) = 1)
            => tool_result.text = TextsOf(callOutcome)[1]
       /\ (callOutcome.data = NoneStr /\ Len(TextsOf(callOutcome)) = 2)
            => tool_result.text
                 = TextsOf(callOutcome)[1] \o <<"\n">> \o TextsOf(callOutcome)[2]
       /\ (callOutcome.data = NoneStr /\ Len(TextsOf(callOutcome)) > 2)
            => tool_result.text = JoinLines(TextsOf(callOutcome))
       /\ (callOutcome.data = NoneStr /\ TextsOf(callOutcome) = <<>>)
            => tool_result.text
                 = <<"{", "\"structured_content\":", " ">>
                     \o (IF callOutcome.structured_content = NoneStr
                           THEN <<"null">>
                           ELSE <<"\"", callOutcome.structured_content, "\"">>)
                     \o <<",", " ", "\"is_error\":", " ", callOutcome.is_error, "}">>

\* data and text blocks were both supplied, in an order that shows: the data won
C25_Witness ==
  /\ histPc = "tool_returned"
  /\ callOutcome.data = "sunny"
  /\ callOutcome.content = << <<"2nd">>, <<"1st">> >>
  /\ tool_result.text = <<"\"", "sunny", "\"">>

\* a text with at least one character
NonEmptyText(t) == \E i \in 1..Len(t) : t[i] # ""

\* C26: whenever client.call_tool returns, run_tool returns a non-empty text and
\* does not raise: with data, and with no data whatever the content is (None,
\* the empty list, blocks without text, blocks with the empty text)
C26_AlwaysSomeText ==
  (histPc \in {"tool_returned", "tool_raised"} /\ callOutcome.kind = "result")
    => /\ histPc = "tool_returned"
       /\ ~tool_result.raised
       /\ tool_result.class = "str"
       /\ NonEmptyText(tool_result.text)

\* the last-resort path was taken: no data, and blocks that carry no text
C26_Witness ==
  /\ histPc = "tool_returned"
  /\ callOutcome.data = NoneStr
  /\ callOutcome.content = << <<>>, NoneText >>
  /\ callOutcome.structured_content = NoneStr
  /\ NonEmptyText(tool_result.text)

\* the last-resort path was taken for a result whose content is None
C26_WitnessNoContent ==
  /\ histPc = "tool_returned"
  /\ callOutcome.data = NoneStr
  /\ callOutcome.no_content
  /\ NonEmptyText(tool_result.text)

\* run_tool turns a ToolError of the collaborator into a RuntimeError whose
\* message names the tool and ends with the collaborator's message
C27_ToolErrorNamesTool ==
  (histPc \in {"tool_returned", "tool_raised"} /\ callOutcome.kind = "ToolError")
    => /\ histPc = "tool_raised"
       /\ tool_result.raised
       /\ tool_result.class = "RuntimeError"
       /\ Contains(tool_result.text, <<"'", invoked.name, "'">>)
       /\ Contains(tool_result.text, callOutcome.msg)

\* C27: run_tool raises the tool-execution error, with a message naming the
\* tool, whenever the collaborator raises a tool-specific error, and the
\* tool-execution error is the only class of error run_tool raises
C27_OnlyToolExecutionError ==
  /\ C27_ToolErrorNamesTool
  /\ histPc = "tool_raised" => tool_result.class = "RuntimeError"

\* the collaborator raised an error that is no ToolError, and it left run_tool
\* as it was
C27_OtherErrorLeaves ==
  /\ histPc = "tool_raised"
  /\ callOutcome.kind = "Exception"
  /\ tool_result.class = "Exception"
  /\ tool_result.text = callOutcome.msg

\* the positions of the set_status calls in a log of UI sink calls
StatusSets(calls) == {i \in 1..Len(calls) : calls[i].method = "set_status"}

\* the status set at position i of the log was cleared at a later position
ClearedAfter(calls, i) ==
  \E k \in (i + 1)..Len(calls) : calls[k] = HideStatus

\* C28: with a UI sink, every model request is preceded by a "generating"
\* set_status and every tool invocation by a set_status naming that tool; each
\* status is cleared by hide_status before the next status is set; the status of
\* a request is cleared once its stream has begun, the status of a tool call
\* once the call's result is recorded (for a sink whose calls return)
C28_StatusOrder ==
  (ui /\ failure # "ui_failed") =>
    /\ \A i, j \in StatusSets(uiCalls) :
         i < j => \E k \in (i + 1)..(j - 1) : uiCalls[k] = HideStatus
    /\ Cardinality({i \in StatusSets(uiCalls) : uiCalls[i].text = GeneratingStatus})
         = nRequests
    /\ Cardinality({i \in StatusSets(uiCalls) : uiCalls[i].text # GeneratingStatus})
         = nInvoked
    /\ pc = "requesting"
         => uiCalls[Len(uiCalls)] = SetStatus(GeneratingStatus)
    /\ pc = "invoking"
         => /\ uiCalls[Len(uiCalls)].method = "set_status"
            /\ uiCalls[Len(uiCalls)].text[1] = "Running"
            /\ uiCalls[Len(uiCalls)].text[2] = Head(pending).function.name
            /\ invoked.name = Head(pending).function.name
    /\ (pc \in {"streaming", "done"} \/ lastEvent.kind \in {"tool_returned", "tool_raised"})
         => \A i \in StatusSets(uiCalls) :
              (pc \in {"requesting", "invoking"} /\ i = Len(uiCalls))
                \/ ClearedAfter(uiCalls, i)

\* two tool calls ran with a sink, the first raised: both statuses were set and
\* cleared, and the second request is announced
C28_Witness ==
  /\ ui
  /\ pc = "requesting"
  /\ nRequests = 2
  /\ nInvoked = 2
  /\ toolFailures = 1
  /\ Cardinality(StatusSets(uiCalls)) = 4

\* the truthy content fragments of the chunks, in arrival order
Fragments(cs) ==
  SelectSeq([i \in 1..Len(cs) |-> cs[i].content], LAMBDA c : Truthy(c))

\* C29: with a UI sink, the content fragments of a model request are forwarded
\* to print_streaming_token one by one in arrival order, each before the next
\* chunk is consumed, and the forwarded fragments concatenated are the content
\* of the assistant step appended for that request (no fragment forwarded when
\* that step has no content)
C29_TokensForwarded ==
  (ui /\ failure # "ui_failed") =>
    /\ pc = "streaming" => printed = Fragments(chunks)
    /\ lastEvent.kind = "stream_ended"
         => LET steps == StepsOf(heap, new_turn)
                appended == steps[Len(steps)].message
            IN /\ appended.role = "assistant"
               /\ printed = Fragments(chunks)
               /\ Concat(printed)
                    = IF appended.content = NoneText THEN <<>> ELSE appended.content
               /\ uiCalls # <<>>
               /\ \A i \in 1..Len(printed) :
                    uiCalls[Len(uiCalls) - Len(printed) + i
                              - (IF pc = "invoking" THEN 1 ELSE 0)]
                      = PrintToken(printed[i])

\* a stream of two fragments ended with a sink: both were forwarded in order
C29_Witness ==
  /\ ui
  /\ lastEvent.kind = "stream_ended"
  /\ printed = << <<"Hel">>, <<"lo">> >>
  /\ LET steps == StepsOf(heap, new_turn)
     IN steps[Len(steps)].message.content = <<"Hel", "lo">>

\* the first of two fragments was forwarded before the second was consumed
C29_WitnessMidStream ==
  /\ ui
  /\ pc = "streaming"
  /\ printed = << <<"Hel">> >>
  /\ Len(stream) = 1

\* the messages end with an assistant message carrying tool calls, followed by
\* one tool result for each of its calls, in the order of the calls
EndsWithToolRound(messages) ==
  \E a \in 1..Len(messages) :
    /\ messages[a].role = "assistant"
    /\ messages[a].tool_calls # <<>>
    /\ Len(messages) = a + Len(messages[a].tool_calls)
    /\ \A k \in 1..Len(messages[a].tool_calls) :
         /\ messages[a + k].role = "tool"
         /\ messages[a + k].tool_call_id = messages[a].tool_calls[k].id
         /\ messages[a + k].name = messages[a].tool_calls[k].function.name

\* C30: the message list of each model request is exactly the messages of all
\* steps of the in-progress turn at that moment, in step order, so a request
\* after a tool round holds the previous assistant message and all its tool
\* results; the request carries the tool catalog of the call, tool choice
\* "auto" exactly when the catalog is non-empty, and asks for a stream
C30_RequestContents ==
  pc = "requesting" =>
    /\ Len(request.messages) = Len(NewSteps)
    /\ \A i \in 1..Len(NewSteps) : request.messages[i] = NewSteps[i].message
    /\ request.tools = tools
    /\ request.tool_choice = "auto" <=> tools # <<>>
    /\ request.tool_choice \in {"auto", NoneStr}
    /\ request.stream
    /\ nRequests = 1 => Len(request.messages) = Len(entry.steps)
    /\ nRequests > 1 => EndsWithToolRound(request.messages)

\* the request after a round of two tool calls, made with the empty catalog
C30_Witness ==
  /\ pc = "requesting"
  /\ nRequests = 2
  /\ tools = <<>>
  /\ request.tool_choice = NoneStr
  /\ Len(request.messages) = Len(entry.steps) + 3
  /\ request.messages[Len(entry.steps) + 1].tool_calls = <<CallBoom, CallEcho>>

\* the request after a tool round, made with a catalog
C30_WitnessCatalog ==
  /\ pc = "requesting"
  /\ nRequests = 2
  /\ tools # <<>>
  /\ request.tool_choice = "auto"

\* the messages hold the error text recorded for the tool call tc
HoldsToolError(messages, tc) ==
  \E i \in 1..Len(messages) :
    /\ messages[i].role = "tool"
    /\ messages[i].tool_call_id = tc.id
    /\ Contains(messages[i].content, <<"TOOL_ERROR:">>)

\* C31: after a tool invocation fails, complete_turn still invokes every
\* remaining tool call of the same assistant message, in order, and then makes
\* the next model request, whose message list contains the tool-error step
C31_RoundGoesOnAfterFailure ==
  /\ [][(pc = "invoking" /\ lastEvent'.kind = "tool_raised")
          => /\ failure' = "none"
             /\ lastEvent'.call = Head(pending)
             /\ IF Len(pending) > 1
                  THEN /\ pc' = "invoking"
                       /\ pending' = Tail(pending)
                       /\ invoked'.name = pending[2].function.name
                       /\ nInvoked' = nInvoked + 1
                       /\ nRequests' = nRequests
                  ELSE /\ pc' = "requesting"
                       /\ nRequests' = nRequests + 1
                       /\ HoldsToolError(request'.messages, Head(pending))]_vars
  /\ []((pc = "requesting" /\ toolFailures > 0 /\ failure = "none")
          => \E i \in 1..Len(request.messages) :
               /\ request.messages[i].role = "tool"
               /\ Contains(request.messages[i].content, <<"TOOL_ERROR:">>))
  /\ []((pc = "requesting" /\ nRequests > 1)
          => EndsWithToolRound(request.messages))

\* the first of two calls failed, the second was invoked and returned, and the
\* next request carries the error text of the first
C31_Witness ==
  /\ pc = "requesting"
  /\ nRequests = 2
  /\ nInvoked = 2
  /\ toolFailures = 1
  /\ lastEvent.kind = "tool_returned"
  /\ lastEvent.call = CallEcho
  /\ HoldsToolError(request.messages, CallBoom)

\* C32: after any sequence of finalized turns, including a turn that ended by
\* loop-bound exhaustion or whose final assistant message carries tool calls and
\* no text, create_initial_turn for the next user input completes without
\* raising: at every prompt of run_repl the next turn can be created, and
\* run_repl is never left by an exception of create_initial_turn
C32_ConversationContinuable ==
  /\ (caller = "repl" /\ replPc = "prompt")
       => ~create_initial_turn(heap, nextOid, <<"hi">>, conversation).raised
  /\ lastEvent.kind # "create_failed"

\* run_repl stored a turn whose last assistant message carries a tool call and
\* no text, and is back at the prompt
C32_TurnWithoutTextStored ==
  /\ caller = "repl"
  /\ replPc = "prompt"
  /\ Len(conversation) = 1
  /\ LastMessage(StepsOf(heap, conversation[1])).content = NoneText
  /\ LastMessage(StepsOf(heap, conversation[1])).tool_calls # <<>>

\* the next ordinary input left run_repl with the exception
C32_CreateFailed ==
  /\ replPc = "crashed"
  /\ lastEvent.kind = "create_failed"
  /\ Len(conversation) = 1

\* the assistant steps this invocation appended that were followed by a tool
\* round: all but the one the turn was returned with
RoundsInSteps == {i \in AppendedAssistants : i < Len(NewSteps)}

\* C33: loop_count counts tool rounds: on every normal return of complete_turn
\* the returned loop_count minus the input's is the number of tool-dispatch
\* rounds performed, and the number of assistant steps appended is the number
\* of model requests made, which is that difference plus one
C33_LoopCountCountsRounds ==
  pc = "done"
    => /\ new_turn.loop_count - entry.loop_count = nRounds
       /\ Cardinality(RoundsInSteps) = nRounds
       /\ Cardinality(AppendedAssistants) = nRequests
       /\ nRequests = (new_turn.loop_count - entry.loop_count) + 1
       /\ \A i \in RoundsInSteps : NewSteps[i + 1].message.role = "tool"

\* a turn returned after one round of two tool calls
C33_Witness ==
  /\ pc = "done"
  /\ nRounds = 1
  /\ nInvoked = 2
  /\ nRequests = 2
  /\ new_turn.loop_count = entry.loop_count + 1

\* a step as a value: its message and usage, without the identity of the object
StepValues(steps) ==
  [i \in 1..Len(steps) |-> [message |-> steps[i].message, usage |-> steps[i].usage]]

\* complete_turn is between its entry and its exit
InProgress == pc \in {"requesting", "streaming", "invoking"}

\* C34: complete_turn only appends: the steps of the in-progress and of the
\* returned turn begin with the input turn's steps, unchanged and in the same
\* order; within the in-progress turn no step is ever removed, reordered or
\* rewritten, and loop_count never decreases
C34_OnlyAppends ==
  /\ []((InProgress \/ pc = "done")
          => /\ IsPrefix(StepValues(entry.steps), StepValues(NewSteps))
             /\ new_turn.loop_count >= entry.loop_count)
  /\ [][InProgress
          => /\ new_turn'.steps = new_turn.steps
             /\ IsPrefix(NewSteps, StepsOf(heap', new_turn'))
             /\ Len(StepsOf(heap', new_turn')) <= Len(NewSteps) + 1
             /\ new_turn'.loop_count >= new_turn.loop_count
             /\ new_turn'.loop_count <= new_turn.loop_count + 1]_vars

\* a turn returned after a round of two calls: four steps after the input's
C34_Witness ==
  /\ pc = "done"
  /\ nRounds = 1
  /\ Len(NewSteps) = Len(entry.steps) + 4
  /\ StepValues(SubSeq(NewSteps, 1, Len(entry.steps))) = StepValues(entry.steps)

\* C35: every turn run_repl appends to the Conversation has an Exchange, and it
\* is (the user input that started the turn, the last assistant message the
\* model produced in that turn), never the history-summary assistant step that
\* create_initial_turn places before the user message
C35_StoredTurnExchange ==
  caller = "repl" =>
    \A t \in 1..Len(conversation) :
      LET steps == StepsOf(heap, conversation[t])
          ex == get_exchange(steps)
      IN /\ ~ex.none
         /\ Len(steps) > 3
         /\ steps[2].message.role = "assistant"
         /\ steps[2].message.content
              = HistorySummary(select_history_by_token_budget(
                  get_exchange_summary(heap, SubSeq(conversation, 1, t - 1)),
                  MAX_HISTORY_TOKENS).selected)
         /\ ex.user = steps[3]
         /\ ex.user.message.role = "user"
         /\ \E inp \in ReplInputs :
              IsOrdinary(Strip(inp)) /\ ex.user.message.content = Strip(inp)
         /\ ex.assistant = steps[Len(steps)]
         /\ ex.assistant.oid # steps[2].oid

\* a stored turn with a tool round: two assistant steps of the model after the
\* history summary, and the exchange holds the last
C35_Witness ==
  /\ caller = "repl"
  /\ Len(conversation) >= 1
  /\ LET steps == StepsOf(heap, conversation[1])
     IN /\ Len(steps) = 6
        /\ steps[4].message.role = "assistant"
        /\ steps[5].message.role = "tool"
        /\ get_exchange(steps).assistant = steps[6]
        /\ get_exchange(steps).user.message.content = <<"hi", " ", "there">>

\* the status notifications among the UI sink calls, in order
StatusCalls(calls) ==
  SelectSeq(calls, LAMBDA c : c.method \in {"set_status", "hide_status"})

\* the last status notification sent is hide_status
LastStatusHidden ==
  /\ StatusCalls(uiCalls) # <<>>
  /\ StatusCalls(uiCalls)[Len(StatusCalls(uiCalls))] = HideStatus
  /\ status = HiddenStatus

\* with a UI sink, a complete_turn that returns has sent hide_status last
C36_HiddenOnReturn ==
  (ui /\ pc = "done") => LastStatusHidden

\* C36: whenever complete_turn exits with a UI sink present, by returning or by
\* raising on a model failure, the last status notification it sent is
\* hide_status: no status is left showing after the engine has left the turn
C36_NoStatusLeftShowing ==
  (ui /\ (pc = "done" \/ (pc = "raised" /\ failure = "model_failed")))
    => LastStatusHidden

\* the model request raised: complete_turn is left with "Generating
\* response..." as the last status it sent
C36_StatusLeftShowing ==
  /\ ui
  /\ pc = "raised"
  /\ failure = "model_failed"
  /\ lastEvent.kind = "model_failed"
  /\ uiCalls[Len(uiCalls)] = SetStatus(GeneratingStatus)
  /\ status = GeneratingStatus

\* ------------------------------------------------- llm_ui.py: the REPLTurnUI

\* text or "Working"
LabelOf(text) == IF text = <<>> THEN <<"Working">> ELSE text

\* the line the worker renders for a label; the frame of the animation is left
\* out
SpinnerLine(label) == <<"[*]", " ">> \o label \o <<" ", "(Ctrl-C to abort)">>

\* self._spinner_task and not self._spinner_task.done()
SpinnerRunning(u) == u.spinner_task \in {"scheduled", "sleeping"}

\* REPLTurnUI._start_spinner: the label and the toolbar are updated; a new stop
\* event and a new worker task are made unless a task is there and not done
start_spinner(u, label) ==
  LET u1 == [u EXCEPT !.spinner_label = LabelOf(label), !.toolbar = LabelOf(label)]
  IN IF SpinnerRunning(u1) THEN u1
     ELSE [u1 EXCEPT !.stop_event = "clear", !.spinner_task = "scheduled"]

\* mutant: the toolbar is reset and the stop event is left as it is
stop_spinner_toolbar_only(u) == [u EXCEPT !.toolbar = <<>>]

\* REPLTurnUI._stop_spinner: the toolbar is reset and the stop event, if there
\* is one, is set; the task is not cancelled
stop_spinner(u) ==
  [u EXCEPT !.toolbar = <<>>,
            !.stop_event = IF @ = NoneStr THEN @ ELSE "set"]

\* REPLTurnUI.set_status
set_status(u, text) == start_spinner(u, LabelOf(text))

\* REPLTurnUI.hide_status
hide_status(u) == stop_spinner(u)

RECURSIVE SinkCalls(_, _)
\* the REPLTurnUI after the engine made `calls` on it with no await in between
SinkCalls(u, calls) ==
  IF calls = <<>> THEN u
  ELSE SinkCalls(IF Head(calls).method = "set_status"
                   THEN set_status(u, Head(calls).text)
                 ELSE IF Head(calls).method = "hide_status"
                   THEN hide_status(u)
                 ELSE u,
                 Tail(calls))

\* the status the engine has set last, after `calls`
StatusAfter(s, calls) ==
  LET sc == SelectSeq(calls, LAMBDA c : c.method \in {"set_status", "hide_status"})
  IN IF sc = <<>> THEN s
     ELSE IF sc[Len(sc)].method = "set_status" THEN sc[Len(sc)].text
     ELSE HiddenStatus

\* the engine makes the sink calls `calls` between two of its awaits and goes to
\* the position `to`; the await it resumes from had suspended it, so a task
\* made before that await has run its first step (the loop runs what is ready
\* in the order it was made ready)
EngineCalls(calls, to) ==
  /\ caller = "spinner"
  /\ repl_ui.spinner_task # "scheduled"
  /\ repl_ui' = SinkCalls(repl_ui, calls)
  /\ status' = StatusAfter(status, calls)
  /\ uiCalls' = calls
  /\ histPc' = to
  /\ lastEvent' = Event("sink_called", NoCall, <<>>)
  /\ UNCHANGED <<caller, max_tool_loops, client, tools, ui, budget,
                 full_exchange_history, exchange_summary, exchange, tool_result,
                 callOutcome, stderr_line, heap, replVars, nextOid, initial_turn,
                 new_turn, pc, request, stream, chunks, pending, invoked, printed,
                 failure, entry, nRounds, allToolResp, toolFailures, inFlight>>

\* complete_turn is entered and awaits its first request (lines 149-159)
UiEnterTurn ==
  /\ histPc = "ui_idle"
  /\ nRequests + nInvoked < MaxStatusCalls
  /\ nRequests' = nRequests + 1
  /\ UNCHANGED nInvoked
  /\ EngineCalls(<<HideStatus, SetStatus(GeneratingStatus)>>, "ui_requesting")

\* acompletion returned and the first chunk is awaited (lines 167-171)
UiStreamOpens ==
  /\ histPc = "ui_requesting"
  /\ UNCHANGED <<nRequests, nInvoked>>
  /\ EngineCalls(<<HideStatus>>, "ui_streaming")

\* the stream ended with no tool to run: complete_turn returns and run_repl
\* awaits the prompt (lines 179-197, 244)
UiTurnReturns ==
  /\ histPc = "ui_streaming"
  /\ UNCHANGED <<nRequests, nInvoked>>
  /\ EngineCalls(<<>>, "ui_idle")

\* the stream ended with a tool call: run_tool is awaited (lines 199-220)
UiToolBegins ==
  /\ histPc = "ui_streaming"
  /\ nRequests + nInvoked < MaxStatusCalls
  /\ nInvoked' = nInvoked + 1
  /\ UNCHANGED nRequests
  /\ EngineCalls(<<SetStatus(RunningStatus(CallEcho))>>, "ui_invoking")

\* run_tool ended and the next call of the round is awaited (lines 221-242,
\* 211-220)
UiNextTool(raised) ==
  /\ histPc = "ui_invoking"
  /\ nRequests + nInvoked < MaxStatusCalls
  /\ nInvoked' = nInvoked + 1
  /\ UNCHANGED nRequests
  /\ EngineCalls(StatusAfterTool(raised) \o <<SetStatus(RunningStatus(CallEcho))>>,
                 "ui_invoking")

\* run_tool ended, it was the last call of the round, and the next request is
\* awaited (lines 221-242, 152-159)
UiNextRequest(raised) ==
  /\ histPc = "ui_invoking"
  /\ nRequests + nInvoked < MaxStatusCalls
  /\ nRequests' = nRequests + 1
  /\ UNCHANGED nInvoked
  /\ EngineCalls(StatusAfterTool(raised) \o <<SetStatus(GeneratingStatus)>>,
                 "ui_requesting")

\* REPLTurnUI._spinner_worker runs from its start, or from the end of its
\* sleep, to its next sleep or to its end (lines 67-103)
SpinnerWorkerStep ==
  /\ caller = "spinner"
  /\ SpinnerRunning(repl_ui)
  /\ IF repl_ui.stop_event = "clear"
       THEN /\ stderr_line' = SpinnerLine(LabelOf(repl_ui.spinner_label))
            /\ repl_ui' = [repl_ui EXCEPT
                             !.spinner_task = "sleeping",
                             !.last_render_len =
                               Len(SpinnerLine(LabelOf(repl_ui.spinner_label)))]
       ELSE /\ stderr_line' = IF repl_ui.last_render_len > 0 THEN <<>> ELSE stderr_line
            /\ repl_ui' = [repl_ui EXCEPT !.spinner_task = "done",
                                           !.last_render_len = 0]
  /\ lastEvent' = Event("worker_ran", NoCall, <<>>)
  /\ UNCHANGED <<caller, max_tool_loops, client, tools, ui, budget,
                 full_exchange_history, exchange_summary, histPc, exchange,
                 tool_result, callOutcome, heap, replVars, engineVars>>

\* a REPLTurnUI just made, before the first turn; the sink is repl_ui, and the
\* arguments of complete_turn play no part
InitSpinner ==
  /\ caller = "spinner"
  /\ heap = <<>>
  /\ conversation = <<>>
  /\ budget = 0
  /\ full_exchange_history = <<>>
  /\ exchange_summary = <<>>
  /\ histPc = "ui_idle"
  /\ exchange = [none |-> TRUE]
  /\ tool_result = NoToolResult
  /\ callOutcome = NoOutcome
  /\ repl_ui = NoReplUi
  /\ stderr_line = <<>>
  /\ EngineAtRest

EngineNextSpinner ==
  \/ UiEnterTurn
  \/ UiStreamOpens
  \/ UiTurnReturns
  \/ UiToolBegins
  \/ \E raised \in BOOLEAN : UiNextTool(raised)
  \/ \E raised \in BOOLEAN : UiNextRequest(raised)

NextSpinner ==
  \/ EngineNextSpinner
  \/ SpinnerWorkerStep

SpecSpinner == InitSpinner /\ [][NextSpinner]_vars

\* the event loop runs the worker task whenever the engine is suspended
FairSpecSpinner == SpecSpinner /\ WF_vars(SpinnerWorkerStep)

\* the spinner worker is active for the status the engine has set
SpinnerActiveForStatus ==
  /\ SpinnerRunning(repl_ui)
  /\ repl_ui.stop_event = "clear"
  /\ repl_ui.spinner_label = status

\* C37: with REPLTurnUI, from every set_status call until the next hide_status
\* call a spinner worker is active for that status (a worker task exists and
\* its stop event is not set), under every interleaving of the worker task
\* with the engine's calls, including a set_status issued right after a
\* hide_status with no suspension point in between
C37_SpinnerActiveWhileStatusSet ==
  (caller = "spinner" /\ status # HiddenStatus) => SpinnerActiveForStatus

\* the status of the first request of a REPLTurnUI has an active worker
C37_FirstStatusActive ==
  (caller = "spinner" /\ status # HiddenStatus /\ nRequests + nInvoked = 1)
    => SpinnerActiveForStatus

\* a request is awaited after a tool round, "Generating response..." is set,
\* and the worker has ended and cleared its line
C37_StatusWithoutSpinner ==
  /\ caller = "spinner"
  /\ histPc = "ui_requesting"
  /\ nInvoked >= 1
  /\ status = GeneratingStatus
  /\ repl_ui.spinner_task = "done"
  /\ repl_ui.stop_event = "set"
  /\ stderr_line = <<>>

\* a step starts a worker task
WorkerStarted ==
  /\ repl_ui'.spinner_task = "scheduled"
  /\ repl_ui.spinner_task # "scheduled"

\* C38: after a hide_status that is not followed by another set_status, the
\* REPLTurnUI spinner worker eventually terminates and clears its line (the
\* worker task being scheduled fairly), and no new worker is started until the
\* next set_status
C38_WorkerEndsAfterHide ==
  /\ (caller = "spinner" /\ status = HiddenStatus)
       ~> (\/ status # HiddenStatus
           \/ (~SpinnerRunning(repl_ui) /\ stderr_line = <<>>
                 /\ repl_ui.last_render_len = 0))
  /\ [][WorkerStarted
          => \E i \in 1..Len(uiCalls') : uiCalls'[i].method = "set_status"]_vars
  /\ [][(status = HiddenStatus /\ status' = HiddenStatus) => ~WorkerStarted]_vars

\* a turn without tools returned, its worker had rendered, and after the last
\* hide_status it ended and cleared its line
C38_Witness ==
  /\ caller = "spinner"
  /\ histPc = "ui_idle"
  /\ nRequests = 1
  /\ status = HiddenStatus
  /\ repl_ui.spinner_task = "done"
  /\ repl_ui.stop_event = "set"
  /\ lastEvent.kind = "worker_ran"
  /\ stderr_line = <<>>

\* blank input, /config, /creds, /help, and /tools when the listing succeeds,
\* make no model request, leave the Conversation as it is and return to the
\* prompt; /exit, /quit and an interrupt end the loop
C39_CommandsReturnToPrompt ==
  /\ [][(replPc = "prompt"
          /\ (lastEvent'.kind = "command"
                \/ (lastEvent'.kind = "tools" /\ replPc' # "crashed")))
          => /\ replPc' = "prompt"
             /\ conversation' = conversation
             /\ heap' = heap
             /\ nRequests' = nRequests
             /\ pc' = pc]_vars
  /\ [][(replPc = "prompt" /\ lastEvent'.kind \in {"exit", "interrupt"})
          => (replPc' = "exited" /\ conversation' = conversation)]_vars

\* C39: in run_repl, blank input and every REPL command (/help, /config,
\* /creds, /summary, /tools) make no model request, leave the Conversation
\* unchanged and return to the prompt; the loop ends only on /exit, /quit or an
\* interrupt/EOF at the prompt
C39_CommandsKeepLoop ==
  caller = "repl" =>
    /\ lastEvent.kind \in {"command", "summary", "tools"}
         => (replPc = "prompt" /\ pc \in {"idle", "done", "raised"})
    /\ replPc \notin {"prompt", "turn"} => lastEvent.kind \in {"exit", "interrupt"}

\* /summary was entered at the first prompt and run_repl was left by the
\* AttributeError
C39_SummaryLeavesRepl ==
  /\ caller = "repl"
  /\ replPc = "crashed"
  /\ lastEvent.kind = "summary"
  /\ conversation = <<>>
  /\ nRequests = 0

\* safe_json_loads never raises, and gives the empty map for the empty payload
\* and for every payload json.loads cannot parse
C40_NeverRaises ==
  (caller = "tool" /\ histPc # "start")
    => /\ invoked.args.kind \in {"dict", "list", "NoneType"}
       /\ lastEvent.call.function.arguments \in {MalformedPayload, EmptyPayload}
            => invoked.args = [kind |-> "dict", keys |-> {}]
       /\ lastEvent.call.function.arguments = ValidObjectPayload
            => invoked.args = [kind |-> "dict", keys |-> {"q"}]

\* C40: for every argument payload string a tool call can carry, the value
\* complete_turn hands to the tool invoker, the result of safe_json_loads, is a
\* map, possibly empty; safe_json_loads never raises
C40_ArgsAreAMap ==
  (caller = "tool" /\ histPc # "start")
    => /\ invoked.args.kind = "dict"
       /\ invoked.name = lastEvent.call.function.name

\* run_tool was awaited with a list for its arguments
C40_ListHandedOver ==
  /\ caller = "tool"
  /\ histPc = "called"
  /\ lastEvent.call.function.arguments = ArrayPayload
  /\ invoked.args.kind = "list"

====
